---- MODULE Spec2Model ----
(***************************************************************************)
(* Snapshot annotation and ref-addressing engine of agent-browser          *)
(* (src/unnamed/part_002, the snapshot module with region partitioning).   *)
(*                                                                         *)
(* A text (the `tree` string and every intermediate string the code        *)
(* builds) is a sequence of lines, one per "\n"-separated line; the empty  *)
(* string is the empty sequence.  A line is a record holding the pieces    *)
(* the code concatenates; Render puts them together into the real string.  *)
(***************************************************************************)
EXTENDS Integers, Sequences, FiniteSets, TLC

(***************************************************************************)
(* Role taxonomy                                                           *)
(***************************************************************************)
INTERACTIVE_ROLES ==
  {"button", "link", "textbox", "checkbox", "radio", "combobox", "listbox",
   "menuitem", "menuitemcheckbox", "menuitemradio", "option", "searchbox",
   "slider", "spinbutton", "switch", "tab", "treeitem"}

CONTENT_ROLES ==
  {"heading", "cell", "gridcell", "columnheader", "rowheader", "listitem",
   "article", "region", "main", "navigation"}

STRUCTURAL_ROLES ==
  {"generic", "group", "list", "table", "row", "rowgroup", "grid", "treegrid",
   "menu", "menubar", "toolbar", "tablist", "tree", "directory", "document",
   "application", "presentation", "none"}

\* String.prototype.toLowerCase on the role tokens the inputs use.
toLowerCase(role) ==
  CASE role = "Button" -> "button"
    [] role = "Heading" -> "heading"
    [] OTHER -> role

(***************************************************************************)
(* Lines and texts                                                         *)
(***************************************************************************)
NoRef == ""
NoNth == -1

\* n space characters.
RECURSIVE Spaces(_)
Spaces(n) == IF n = 0 THEN "" ELSE " " \o Spaces(n - 1)

\* A line of the accessibility tree as the line regular expression
\*   /^(\s*-\s*)(\w+)(?:\s+"([^"]*)")?(.*)$/
\* sees it: `indent` leading blanks, then (match) "- ", the role token, the
\* optional quoted name (absent = "") and the rest of the line in `suffix`;
\* a line the expression does not match keeps its whole body in `suffix`.
\* `level` is not part of the text: it remembers the indentation level of
\* the accessibility-tree entry a line comes from (0 for a line the code
\* writes itself), whatever the code does to the line afterwards.
AriaLine(indent, role, name, suffix) ==
  [kind |-> "aria", indent |-> indent, match |-> TRUE, role |-> role,
   name |-> name, ref |-> NoRef, nth |-> 0, suffix |-> suffix,
   level |-> indent \div 2]

TextLine(indent, body) ==
  [kind |-> "text", indent |-> indent, match |-> FALSE, role |-> "",
   name |-> "", ref |-> NoRef, nth |-> 0, suffix |-> body,
   level |-> indent \div 2]

\* A line the snapshot code writes itself (heading, marker, blank line).
OwnLine(kind, body) ==
  [kind |-> kind, indent |-> 0, match |-> FALSE, role |-> "",
   name |-> "", ref |-> NoRef, nth |-> 0, suffix |-> body, level |-> 0]

EmptyMarker == OwnLine("marker", "(empty)")
NoInteractiveMarker == OwnLine("marker", "(no interactive elements)")
CursorHeading == OwnLine("cursorhead", "# Cursor-interactive elements:")
BlankLine == OwnLine("blank", "")

\* The string of a line: prefix, role, quoted name, annotations, suffix.
Render(l) ==
  Spaces(l.indent)
    \o (IF l.match THEN "- " \o l.role ELSE "")
    \o (IF l.name # "" THEN " \"" \o l.name \o "\"" ELSE "")
    \o (IF l.ref # NoRef THEN " [ref=" \o l.ref \o "]" ELSE "")
    \o (IF l.nth > 0 THEN " [nth=" \o ToString(l.nth) \o "]" ELSE "")
    \o l.suffix

\* Array.prototype.join("\n") of the lines, as a string.
RECURSIVE RenderTree(_)
RenderTree(t) ==
  IF t = <<>> THEN ""
  ELSE IF Len(t) = 1 THEN Render(t[1])
  ELSE Render(t[1]) \o "\n" \o RenderTree(Tail(t))

\* tree.split('\n').length
LineCount(t) == IF t = <<>> THEN 1 ELSE Len(t)

\* What String.includes / endsWith answer on the rests of a line the inputs
\* use: "", ":", ": text", " [level=1]", " [disabled]:", "- /url: x".
IncludesBracket(s) == s \in {" [level=1]", " [disabled]:"}
IncludesColon(s) == s \in {":", ": text", " [disabled]:", "- /url: x"}
EndsWithColon(s) == s \in {":", " [disabled]:"}

(***************************************************************************)
(* Ref allocator                                                           *)
(***************************************************************************)
\* A resetRefs that leaves the counter as it is
resetRefs_kept(counter) == counter

\* resetRefs: refCounter = 0 (the counter after the call)
resetRefs(counter) == 0

\* A nextRef that reads the counter without advancing it
nextRef_stuck(counter) == [ref |-> "e" \o ToString(counter + 1), counter |-> counter]

\* nextRef: `e${++refCounter}`
nextRef(counter) == [ref |-> "e" \o ToString(counter + 1), counter |-> counter + 1]

\* buildSelector(role, name); a name matched by [^"]* holds no quote to escape.
buildSelector(role, name) ==
  IF name # ""
    THEN "getByRole('" \o role \o "', { name: \"" \o name \o "\", exact: true })"
    ELSE "getByRole('" \o role \o "')"

(***************************************************************************)
(* Duplicate tracker                                                       *)
(***************************************************************************)
createRoleNameTracker == [counts |-> <<>>, refsByKey |-> <<>>]

\* The tracker's two Maps are sequences of <<key, value>> pairs in
\* insertion order.
RECURSIVE MapGet(_, _, _)
MapGet(m, key, default) ==
  IF m = <<>> THEN default
  ELSE IF m[1][1] = key THEN m[1][2]
  ELSE MapGet(Tail(m), key, default)

RECURSIVE MapSet(_, _, _)
MapSet(m, key, val) ==
  IF m = <<>> THEN << <<key, val>> >>
  ELSE IF m[1][1] = key THEN << <<key, val>> >> \o Tail(m)
  ELSE << m[1] >> \o MapSet(Tail(m), key, val)

getKey(role, name) == role \o ":" \o name

\* getNextIndex: the index returned, and the tracker after the call.
getNextIndex(tracker, role, name) ==
  LET key == getKey(role, name)
      bump(current) ==
        [nth |-> current,
         tracker |-> [tracker EXCEPT !.counts = MapSet(tracker.counts, key, current + 1)]]
  IN bump(MapGet(tracker.counts, key, 0))

trackRef(tracker, role, name, ref) ==
  LET key == getKey(role, name)
      refsOfKey == MapGet(tracker.refsByKey, key, <<>>)
  IN [tracker EXCEPT !.refsByKey = MapSet(tracker.refsByKey, key, Append(refsOfKey, ref))]

getDuplicateKeys(tracker) ==
  {tracker.refsByKey[i][1] : i \in {j \in 1..Len(tracker.refsByKey) :
                                      Len(tracker.refsByKey[j][2]) > 1}}

(***************************************************************************)
(* RefMap: the entries in insertion order; assigning an id that is already *)
(* a key replaces the entry in place.                                      *)
(***************************************************************************)
RefEntry(ref, selector, role, name, nth) ==
  [ref |-> ref, selector |-> selector, role |-> role, name |-> name, nth |-> nth]

RECURSIVE RefPut(_, _)
RefPut(refs, entry) ==
  IF refs = <<>> THEN <<entry>>
  ELSE IF refs[1].ref = entry.ref THEN <<entry>> \o Tail(refs)
  ELSE <<refs[1]>> \o RefPut(Tail(refs), entry)

\* A clean-up that strips nothing
removeNthFromNonDuplicates_none(refs, tracker) == refs

removeNthFromNonDuplicates(refs, tracker) ==
  LET duplicateKeys == getDuplicateKeys(tracker)
      strip(entry) == IF getKey(entry.role, entry.name) \notin duplicateKeys
                        THEN [entry EXCEPT !.nth = NoNth]
                        ELSE entry
  IN IF refs = <<>> THEN <<>> ELSE [i \in 1..Len(refs) |-> strip(refs[i])]

(***************************************************************************)
(* Tree filter pipeline                                                    *)
(***************************************************************************)
NoDepth == -1
NoSelector == ""

\* getIndentLevel: the leading blanks of the line, halved and floored.
getIndentLevel(line) == line.indent \div 2

\* The shared state a pass over the tree threads through: the RefMap, the
\* duplicate tracker and the module-level refCounter.
\* `issued` lists the ids nextRef has returned to the invocation, in order.
Ctx(refs, tracker, counter, issued) ==
  [refs |-> refs, tracker |-> tracker, counter |-> counter, issued |-> issued]

\* The ref assignment shared by processLine and the interactive branch:
\* nextRef, getNextIndex, trackRef, refs[ref] = {...}.
AssignRef(ctx, roleLower, name) ==
  LET assign(r, n) ==
        [ref |-> r.ref, nth |-> n.nth,
         ctx |-> Ctx(RefPut(ctx.refs, RefEntry(r.ref, buildSelector(roleLower, name),
                                               roleLower, name, n.nth)),
                     trackRef(n.tracker, roleLower, name, r.ref), r.counter,
                     Append(ctx.issued, r.ref))]
  IN assign(nextRef(ctx.counter), getNextIndex(ctx.tracker, roleLower, name))

\* A processLine whose depth test is turned round: it drops the lines
\* above the limit instead of those below it
processLine_inverted(line, ctx, options) ==
  LET roleLower == toLowerCase(line.role)
      isInteractive == roleLower \in INTERACTIVE_ROLES
      shouldHaveRef == isInteractive \/ (roleLower \in CONTENT_ROLES /\ line.name # "")
      withRef(a) == [ctx |-> a.ctx, out |-> <<[line EXCEPT !.ref = a.ref, !.nth = a.nth]>>]
  IN IF options.maxDepth # NoDepth /\ getIndentLevel(line) < options.maxDepth
       THEN [ctx |-> ctx, out |-> <<>>]
     ELSE IF ~line.match
       THEN [ctx |-> ctx, out |-> IF options.interactive THEN <<>> ELSE <<line>>]
     ELSE IF options.interactive /\ ~isInteractive
       THEN [ctx |-> ctx, out |-> <<>>]
     ELSE IF options.compact /\ roleLower \in STRUCTURAL_ROLES /\ line.name = ""
       THEN [ctx |-> ctx, out |-> <<>>]
     ELSE IF shouldHaveRef
       THEN withRef(AssignRef(ctx, roleLower, line.name))
     ELSE [ctx |-> ctx, out |-> <<line>>]

\* A processLine that gives every content role a ref, named or not
processLine_anyContent(line, ctx, options) ==
  LET roleLower == toLowerCase(line.role)
      isInteractive == roleLower \in INTERACTIVE_ROLES
      shouldHaveRef == isInteractive \/ roleLower \in CONTENT_ROLES
      withRef(a) == [ctx |-> a.ctx, out |-> <<[line EXCEPT !.ref = a.ref, !.nth = a.nth]>>]
  IN IF options.maxDepth # NoDepth /\ getIndentLevel(line) > options.maxDepth
       THEN [ctx |-> ctx, out |-> <<>>]
     ELSE IF ~line.match
       THEN [ctx |-> ctx, out |-> IF options.interactive THEN <<>> ELSE <<line>>]
     ELSE IF options.interactive /\ ~isInteractive
       THEN [ctx |-> ctx, out |-> <<>>]
     ELSE IF options.compact /\ roleLower \in STRUCTURAL_ROLES /\ line.name = ""
       THEN [ctx |-> ctx, out |-> <<>>]
     ELSE IF shouldHaveRef
       THEN withRef(AssignRef(ctx, roleLower, line.name))
     ELSE [ctx |-> ctx, out |-> <<line>>]

\* processLine: the context after the line and the line pushed (none: <<>>).
processLine(line, ctx, options) ==
  LET roleLower == toLowerCase(line.role)
      isInteractive == roleLower \in INTERACTIVE_ROLES
      isContent == roleLower \in CONTENT_ROLES
      isStructural == roleLower \in STRUCTURAL_ROLES
      shouldHaveRef == isInteractive \/ (isContent /\ line.name # "")
      withRef(a) == [ctx |-> a.ctx, out |-> <<[line EXCEPT !.ref = a.ref, !.nth = a.nth]>>]
  IN IF options.maxDepth # NoDepth /\ getIndentLevel(line) > options.maxDepth
       THEN [ctx |-> ctx, out |-> <<>>]
     ELSE IF ~line.match
       THEN [ctx |-> ctx, out |-> IF options.interactive THEN <<>> ELSE <<line>>]
     ELSE IF options.interactive /\ ~isInteractive
       THEN [ctx |-> ctx, out |-> <<>>]
     ELSE IF options.compact /\ isStructural /\ line.name = ""
       THEN [ctx |-> ctx, out |-> <<>>]
     ELSE IF shouldHaveRef
       THEN withRef(AssignRef(ctx, roleLower, line.name))
     ELSE [ctx |-> ctx, out |-> <<line>>]

\* An interactive-only iteration that keeps every suffix
interactiveLine_keepSuffix(line, ctx) ==
  LET roleLower == toLowerCase(line.role)
      withRef(a) ==
        [ctx |-> a.ctx,
         out |-> <<[line EXCEPT !.indent = 0, !.ref = a.ref, !.nth = a.nth]>>]
  IN IF line.match /\ roleLower \in INTERACTIVE_ROLES
       THEN withRef(AssignRef(ctx, roleLower, line.name))
       ELSE [ctx |-> ctx, out |-> <<>>]

\* One iteration of the interactive-only loop of processAriaTree: the line
\* is rebuilt as "- role", name, ref, nth, and the suffix when it holds a "[".
interactiveLine(line, ctx) ==
  LET roleLower == toLowerCase(line.role)
      withRef(a) ==
        [ctx |-> a.ctx,
         out |-> <<[line EXCEPT !.indent = 0, !.ref = a.ref, !.nth = a.nth,
                                !.suffix = IF IncludesBracket(line.suffix)
                                             THEN line.suffix ELSE ""]>>]
  IN IF line.match /\ roleLower \in INTERACTIVE_ROLES
       THEN withRef(AssignRef(ctx, roleLower, line.name))
       ELSE [ctx |-> ctx, out |-> <<>>]

\* A compactTree that keeps a line with a ref only for what follows it
compactTree_noRefRule(tree) ==
  LET hasRelevantChildren(i) ==
        \E j \in (i + 1)..Len(tree) :
          /\ tree[j].ref # NoRef
          /\ \A k \in (i + 1)..j : getIndentLevel(tree[k]) > getIndentLevel(tree[i])
      keep(i) ==
        \/ IncludesColon(tree[i].suffix) /\ ~EndsWithColon(tree[i].suffix)
        \/ hasRelevantChildren(i)
      F[i \in 0..Len(tree)] ==
        IF i = 0 THEN <<>>
        ELSE IF keep(i) THEN Append(F[i - 1], tree[i]) ELSE F[i - 1]
  IN F[Len(tree)]

\* compactTree: a line stays when it holds a ref, or inline text after a ":",
\* or when a line after it, before the next line that is not deeper, holds a ref.
compactTree(tree) ==
  LET hasRelevantChildren(i) ==
        \E j \in (i + 1)..Len(tree) :
          /\ tree[j].ref # NoRef
          /\ \A k \in (i + 1)..j : getIndentLevel(tree[k]) > getIndentLevel(tree[i])
      keep(i) ==
        \/ tree[i].ref # NoRef
        \/ IncludesColon(tree[i].suffix) /\ ~EndsWithColon(tree[i].suffix)
        \/ hasRelevantChildren(i)
      F[i \in 0..Len(tree)] ==
        IF i = 0 THEN <<>>
        ELSE IF keep(i) THEN Append(F[i - 1], tree[i]) ELSE F[i - 1]
  IN F[Len(tree)]

\* processAriaTree: the lines of ariaTree.split('\n') folded through the
\* interactive-only loop or processLine, then the nth clean-up and, in
\* compact mode, compactTree.  Gives the context after and the tree text.
processAriaTree(ariaTree, ctx0, options, finalizeNth) ==
  LET push(acc, p) == [ctx |-> p.ctx, result |-> acc.result \o p.out]
      step(acc, line) ==
        push(acc, IF options.interactive THEN interactiveLine(line, acc.ctx)
                  ELSE processLine(line, acc.ctx, options))
      F[i \in 0..Len(ariaTree)] ==
        IF i = 0 THEN [ctx |-> ctx0, result |-> <<>>]
        ELSE step(F[i - 1], ariaTree[i])
      finish(done) ==
        [ctx |-> IF finalizeNth
                   THEN [done.ctx EXCEPT
                           !.refs = removeNthFromNonDuplicates(@, done.ctx.tracker)]
                   ELSE done.ctx,
         tree |-> IF options.interactive
                    THEN IF done.result = <<>> THEN <<NoInteractiveMarker>> ELSE done.result
                  ELSE IF options.compact THEN compactTree(done.result)
                  ELSE done.result]
  IN finish(F[Len(ariaTree)])

(***************************************************************************)
(* Cursor-interactive elements (the result of the in-page query)           *)
(***************************************************************************)
\* A candidate of the in-page query: an element that passed the filters of
\* the candidate loop.  `within` is the place, in the list of candidates
\* (document order), of the nearest candidate that is a DOM ancestor of the
\* element (0: none); `depth` counts the element's ancestors.
Candidate(selector, text, hasCursorPointer, hasOnClick, hasTabIndex, hasTitle, hasAriaLabel, hasDirectCursorPointer, depth, within) ==
  [selector |-> selector, text |-> text, hasCursorPointer |-> hasCursorPointer,
   hasOnClick |-> hasOnClick, hasTabIndex |-> hasTabIndex, hasTitle |-> hasTitle,
   hasAriaLabel |-> hasAriaLabel, hasDirectCursorPointer |-> hasDirectCursorPointer,
   depth |-> depth, within |-> within]

\* An unlabelled candidate under body that no other candidate contains.
CursorEl(selector, text, hasCursorPointer, hasOnClick, hasTabIndex) ==
  Candidate(selector, text, hasCursorPointer, hasOnClick, hasTabIndex,
            FALSE, FALSE, FALSE, 1, 0)

\* A score that counts a title no more than an aria-label
scoreCandidate_titleAsLabel(candidate) ==
  (IF candidate.hasTitle \/ candidate.hasAriaLabel THEN 8 ELSE 0)
    + (IF candidate.hasDirectCursorPointer THEN 4 ELSE 0)
    + (IF candidate.hasOnClick THEN 2 ELSE 0)
    + (IF candidate.hasTabIndex THEN 1 ELSE 0)

\* A score in which an aria-label counts 4, as an inline pointer cursor does
scoreCandidate_lowLabel(candidate) ==
  (IF candidate.hasTitle THEN 16 ELSE IF candidate.hasAriaLabel THEN 4 ELSE 0)
    + (IF candidate.hasDirectCursorPointer THEN 4 ELSE 0)
    + (IF candidate.hasOnClick THEN 2 ELSE 0)
    + (IF candidate.hasTabIndex THEN 1 ELSE 0)

scoreCandidate(candidate) ==
  (IF candidate.hasTitle THEN 16 ELSE IF candidate.hasAriaLabel THEN 8 ELSE 0)
    + (IF candidate.hasDirectCursorPointer THEN 4 ELSE 0)
    + (IF candidate.hasOnClick THEN 2 ELSE 0)
    + (IF candidate.hasTabIndex THEN 1 ELSE 0)

\* The comparator of candidates.sort: candidate a (at place i, its order)
\* goes before candidate b (at place j).
sortsBefore(candidates, i, j) ==
  LET a == candidates[i]
      b == candidates[j]
      aLabeled == a.hasTitle \/ a.hasAriaLabel
      bLabeled == b.hasTitle \/ b.hasAriaLabel
  IN IF scoreCandidate(b) # scoreCandidate(a) THEN scoreCandidate(a) > scoreCandidate(b)
     ELSE IF aLabeled /\ bLabeled /\ a.depth # b.depth THEN a.depth < b.depth
     ELSE IF ~(aLabeled /\ bLabeled) /\ a.depth # b.depth THEN a.depth > b.depth
     ELSE i < j

\* [...candidates].sort(...): the places of the candidates, sorted.
sortCandidates(candidates) ==
  [k \in 1..Len(candidates) |->
     CHOOSE i \in 1..Len(candidates) :
       Cardinality({j \in 1..Len(candidates) : j # i /\ sortsBefore(candidates, j, i)}) = k - 1]

\* a.element.contains(b.element)
RECURSIVE elementContains(_, _, _)
elementContains(candidates, a, b) ==
  IF a = b THEN TRUE
  ELSE IF candidates[b].within = 0 THEN FALSE
  ELSE elementContains(candidates, a, candidates[b].within)

\* A selection that looks for chosen ancestors only
selectCandidates_ancestorsOnly(candidates, sorted) ==
  LET overlaps(selected, c) ==
        \E k \in 1..Len(selected) : elementContains(candidates, selected[k], c)
      S[n \in 0..Len(sorted)] ==
        IF n = 0 THEN <<>>
        ELSE IF overlaps(S[n - 1], sorted[n]) THEN S[n - 1]
        ELSE Append(S[n - 1], sorted[n])
  IN S[Len(sorted)]

\* The walk over the sorted candidates: one is pushed unless a chosen one
\* contains it or it contains a chosen one.
selectCandidates(candidates, sorted) ==
  LET overlaps(selected, c) ==
        \E k \in 1..Len(selected) :
          \/ elementContains(candidates, selected[k], c)
          \/ elementContains(candidates, c, selected[k])
      S[n \in 0..Len(sorted)] ==
        IF n = 0 THEN <<>>
        ELSE IF overlaps(S[n - 1], sorted[n]) THEN S[n - 1]
        ELSE Append(S[n - 1], sorted[n])
  IN S[Len(sorted)]

\* selected.sort((a, b) => a.order - b.order) and the map to the records
\* returned.
returnSelected(candidates, selected) ==
  LET chosen(i) == \E k \in 1..Len(selected) : selected[k] = i
      returned(c) ==
        [selector |-> c.selector, text |-> c.text, hasCursorPointer |-> c.hasCursorPointer,
         hasOnClick |-> c.hasOnClick, hasTabIndex |-> c.hasTabIndex]
      R[n \in 0..Len(candidates)] ==
        IF n = 0 THEN <<>>
        ELSE IF chosen(n) THEN Append(R[n - 1], returned(candidates[n])) ELSE R[n - 1]
  IN R[Len(candidates)]

\* findCursorInteractiveElements: the page query (sort, selection, map)
\* inside try/catch; a query that throws is logged and gives no element.
findCursorInteractiveElements(query) ==
  [rejected |-> FALSE,
   els |-> IF query.threw THEN <<>>
           ELSE returnSelected(query.els,
                               selectCandidates(query.els, sortCandidates(query.els)))]

\* hints.join(', ')
hintsOf(el) ==
  LET h1 == IF el.hasCursorPointer THEN <<"cursor:pointer">> ELSE <<>>
      h2 == IF el.hasOnClick THEN <<"onclick">> ELSE <<>>
      h3 == IF el.hasTabIndex THEN <<"tabindex">> ELSE <<>>
      hints == h1 \o h2 \o h3
      F[i \in 0..Len(hints)] ==
        IF i = 0 THEN "" ELSE IF i = 1 THEN hints[1] ELSE F[i - 1] \o ", " \o hints[i]
  IN F[Len(hints)]

cursorRole(el) ==
  IF el.hasCursorPointer THEN "clickable" ELSE IF el.hasOnClick THEN "clickable" ELSE "focusable"

\* `- ${role} "${el.text}" [ref=${ref}] [${hints.join(', ')}]`
cursorLine(el, ref) ==
  [kind |-> "cursor", indent |-> 0, match |-> TRUE, role |-> cursorRole(el),
   name |-> el.text, ref |-> ref, nth |-> 0, suffix |-> " [" \o hintsOf(el) \o "]",
   level |-> 0]

(***************************************************************************)
(* getEnhancedSnapshotForScope, in its two synchronous parts               *)
(***************************************************************************)
\* A scope without the try/catch: an ariaSnapshot that throws rejects
scopeTree_uncaught(aria, ctx, options) ==
  [rejected |-> aria.threw, ctx |-> ctx,
   tree |-> IF options.interactive THEN <<NoInteractiveMarker>> ELSE <<EmptyMarker>>]

\* A scope that answers "(empty)" for every missing tree, interactive or not
scopeTree_emptyOnly(aria, ctx, options) ==
  LET filtered(p) == [rejected |-> FALSE, ctx |-> p.ctx, tree |-> p.tree]
  IN IF aria.threw \/ aria.lines = <<>>
       THEN [rejected |-> FALSE, ctx |-> ctx, tree |-> <<EmptyMarker>>]
       ELSE filtered(processAriaTree(aria.lines, ctx, options, FALSE))

\* A scope that takes a ref from the counter when the acquisition throws
scopeTree_burnsRef(aria, ctx, options) ==
  LET marker == IF options.interactive THEN <<NoInteractiveMarker>> ELSE <<EmptyMarker>>
      filtered(p) == [rejected |-> FALSE, ctx |-> p.ctx, tree |-> p.tree]
  IN IF aria.threw
       THEN [rejected |-> FALSE, tree |-> marker,
             ctx |-> [ctx EXCEPT !.counter = nextRef(ctx.counter).counter]]
     ELSE IF aria.lines # <<>>
       THEN filtered(processAriaTree(aria.lines, ctx, options, FALSE))
     ELSE [rejected |-> FALSE, ctx |-> ctx, tree |-> marker]

\* After `await locator.ariaSnapshot()`: the tree filter on the text, or
\* the marker when the text is empty or the call threw (caught).
scopeTree(aria, ctx, options) ==
  LET marker == IF options.interactive THEN <<NoInteractiveMarker>> ELSE <<EmptyMarker>>
      filtered(p) == [rejected |-> FALSE, ctx |-> p.ctx, tree |-> p.tree]
  IN IF aria.threw THEN [rejected |-> FALSE, ctx |-> ctx, tree |-> marker]
     ELSE IF aria.lines # <<>>
       THEN filtered(processAriaTree(aria.lines, ctx, options, FALSE))
     ELSE [rejected |-> FALSE, ctx |-> ctx, tree |-> marker]

\* After `await findCursorInteractiveElements()`: one ref and one line per
\* element, appended to the tree of the scope.
scopeCursor(enhancedTree, cursorElements, ctx0) ==
  LET add(acc, el, r) ==
        [ctx |-> [acc.ctx EXCEPT
                    !.refs = RefPut(@, RefEntry(r.ref, el.selector, cursorRole(el),
                                                el.text, NoNth)),
                    !.counter = r.counter,
                    !.issued = Append(@, r.ref)],
         additionalLines |-> Append(acc.additionalLines, cursorLine(el, r.ref))]
      step(acc, el) == add(acc, el, nextRef(acc.ctx.counter))
      F[i \in 0..Len(cursorElements)] ==
        IF i = 0 THEN [ctx |-> ctx0, additionalLines |-> <<>>]
        ELSE step(F[i - 1], cursorElements[i])
      isMarker == enhancedTree = <<NoInteractiveMarker>> \/ enhancedTree = <<EmptyMarker>>
      \* base + '\n# Cursor-interactive elements:\n' + additionalLines.join('\n')
      withHeading(additionalLines) ==
        (IF enhancedTree = <<>> THEN <<BlankLine>> ELSE enhancedTree)
          \o <<CursorHeading>> \o additionalLines
      finish(done) ==
        [ctx |-> done.ctx,
         tree |-> IF done.additionalLines = <<>> THEN enhancedTree
                  ELSE IF isMarker THEN done.additionalLines
                  ELSE withHeading(done.additionalLines)]
  IN finish(F[Len(cursorElements)])

(***************************************************************************)
(* Icon glyph resolver.  The resolver and the table it reads                *)
(* (src/mdi-codepoints.ts, written by scripts/generate-mdi-map.js) are not  *)
(* among the sources; they are modelled from section 4.7 of the             *)
(* specification and from the labels the browser tests expect.              *)
(* A glyph is written "{XXXXX}" in a label: "{F01D9}" stands for the one    *)
(* character U+F01D9.                                                       *)
(***************************************************************************)
\* The code points of a label, left to right.  The labels without glyphs
\* hold no code point of any private-use range and are left out.
CodePoints(label) ==
  CASE label = "{F01D9}" -> <<983513>>
    [] label = "Menu{F0156}{E00A}" -> <<77, 101, 110, 117, 983382, 57354>>
    [] label = "{E00A}{F01D9}" -> <<57354, 983513>>
    [] OTHER -> <<>>

\* U+E000-F8FF, U+F0000-FFFFD, U+100000-10FFFD
isPrivateUse(cp) ==
  \/ cp \in 57344..63743
  \/ cp \in 983040..1048573
  \/ cp \in 1048576..1114109

\* Record<number, string>: [parseInt(codepoint, 16), name] of meta.json
MDI_CODEPOINT_NAMES == [cp \in {983513, 983382} |->
                          IF cp = 983513 THEN "dots-vertical" ELSE "close"]

\* Number.prototype.toString(16)
RECURSIVE toHex(_)
toHex(n) ==
  LET digit(d) == <<"0", "1", "2", "3", "4", "5", "6", "7",
                    "8", "9", "a", "b", "c", "d", "e", "f">>[d + 1]
  IN IF n < 16 THEN digit(n) ELSE toHex(n \div 16) \o digit(n % 16)

\* <name> of a glyph the table knows, <icon-u+XXXX> of any other
describeGlyph(cp) ==
  IF cp \in DOMAIN MDI_CODEPOINT_NAMES THEN "<" \o MDI_CODEPOINT_NAMES[cp] \o ">"
  ELSE "<icon-u+" \o toHex(cp) \o ">"

\* The private-use code points of a label, in the order they stand in it
RECURSIVE glyphsOf(_)
glyphsOf(cps) ==
  IF cps = <<>> THEN <<>>
  ELSE (IF isPrivateUse(Head(cps)) THEN <<Head(cps)>> ELSE <<>>) \o glyphsOf(Tail(cps))

\* A resolver that describes the first glyph of a label only
iconDescOf_firstOnly(label) ==
  LET first(glyphs) == IF glyphs = <<>> THEN "" ELSE describeGlyph(glyphs[1])
  IN first(glyphsOf(CodePoints(label)))

\* names.join(', ') of the descriptions of the glyphs of a label
iconDescOf(label) ==
  LET joined(glyphs) ==
        LET F[i \in 0..Len(glyphs)] ==
              IF i = 0 THEN ""
              ELSE IF i = 1 THEN describeGlyph(glyphs[1])
              ELSE F[i - 1] \o ", " \o describeGlyph(glyphs[i])
        IN F[Len(glyphs)]
  IN joined(glyphsOf(CodePoints(label)))

\* The post-processing of one emitted line: the line as it stands, and the
\* annotation it carries: [icon-desc=...] on a line with a quoted name,
\* [icon-descs=...] on a plain-text line, none ("") on a line without glyphs.
resolveLine(l) ==
  LET desc == IF l.name # "" THEN iconDescOf(l.name) ELSE iconDescOf(l.suffix)
      tag == IF l.name # "" THEN " [icon-desc=" ELSE " [icon-descs="
  IN [line |-> l, annotation |-> IF desc = "" THEN "" ELSE tag \o desc \o "]"]

\* The post-processing of every emitted line of a tree
resolveIconGlyphs(tree) == [k \in DOMAIN tree |-> resolveLine(tree[k])]

(***************************************************************************)
(* Region partitioner: getMyheloActiveRegions over a document.             *)
(* A document is the sequence of its elements in document order; an        *)
(* element names the candidate selectors it matches (`sels`), its parent   *)
(* (an index, 0 under body), its computed style and its client rect.       *)
(***************************************************************************)
RegionDefinitions ==
  << [key |-> "sidebar", title |-> "Sidebar",
      candidates |-> <<"#sidebar-header", "#sidebar-center", "#sidebar-footer",
                       ".component.reverb.sidebar">>],
     [key |-> "contents", title |-> "Contents",
      candidates |-> <<"#panel-header", "#panel-center", "#panel-footer",
                       "#contents-header", "#contents-center", "#contents-footer",
                       ".component.reverb.threads", ".component.reverb.messages">>],
     [key |-> "drawer", title |-> "Drawer",
      candidates |-> <<"#drawer-container", "#drawer-header", "#drawer-center",
                       "#drawer-footer">>] >>

\* doc.querySelector(selector) finds an element
querySelector(doc, selector) == \E i \in 1..Len(doc.els) : selector \in doc.els[i].sels

\* A detection that takes either group for a shell
hasMyheloSubLayout_either(doc) ==
  \/ querySelector(doc, "#panel-center")
  \/ querySelector(doc, "#contents-center")
  \/ querySelector(doc, ".component.reverb.threads")
  \/ querySelector(doc, ".component.reverb.messages")
  \/ querySelector(doc, "#sidebar-center")
  \/ querySelector(doc, "#drawer-container")
  \/ querySelector(doc, ".component.reverb.sidebar")

hasMyheloSubLayout(doc) ==
  /\ \/ querySelector(doc, "#panel-center")
     \/ querySelector(doc, "#contents-center")
     \/ querySelector(doc, ".component.reverb.threads")
     \/ querySelector(doc, ".component.reverb.messages")
  /\ \/ querySelector(doc, "#sidebar-center")
     \/ querySelector(doc, "#drawer-container")
     \/ querySelector(doc, ".component.reverb.sidebar")

RECURSIVE getDepth(_, _)
getDepth(doc, i) == IF doc.els[i].parent = 0 THEN 2 ELSE 1 + getDepth(doc, doc.els[i].parent)

\* Node.contains: a is b or an ancestor of b
RECURSIVE contains(_, _, _)
contains(doc, a, b) ==
  IF a = b THEN TRUE
  ELSE IF doc.els[b].parent = 0 THEN FALSE
  ELSE contains(doc, a, doc.els[b].parent)

Min(a, b) == IF a < b THEN a ELSE b
Max(a, b) == IF a > b THEN a ELSE b

isOnScreenAndVisible(doc, i) ==
  LET el == doc.els[i]
      style == el.style
      rect == el.rect
      intersectionWidth == Min(rect.right, doc.innerWidth) - Max(rect.left, 0)
      intersectionHeight == Min(rect.bottom, doc.innerHeight) - Max(rect.top, 0)
  IN IF \/ style.display = "none"
        \/ style.visibility = "hidden"
        \/ style.opacity = "0"
        \/ style.pointerEvents = "none"
       THEN FALSE
     ELSE IF rect.right - rect.left <= 0 \/ rect.bottom - rect.top <= 0 THEN FALSE
     ELSE intersectionWidth > 1 /\ intersectionHeight > 1

\* dedupeTopLevelElements: distinct elements, sorted by depth (a stable
\* sort), each kept unless an element kept before it contains it.
dedupeTopLevelElements(doc, elements) ==
  LET addUnique(seen, x) ==
        IF \E k \in 1..Len(seen) : seen[k] = x THEN seen ELSE Append(seen, x)
      U[i \in 0..Len(elements)] ==
        IF i = 0 THEN <<>> ELSE addUnique(U[i - 1], elements[i])
      splitAt(sorted, x, k) ==
        SubSeq(sorted, 1, k) \o <<x>> \o SubSeq(sorted, k + 1, Len(sorted))
      insert(sorted, x) ==
        splitAt(sorted, x,
                Cardinality({j \in 1..Len(sorted) :
                               getDepth(doc, sorted[j]) <= getDepth(doc, x)}))
      byDepth(uniqueElements) ==
        LET S[i \in 0..Len(uniqueElements)] ==
              IF i = 0 THEN <<>> ELSE insert(S[i - 1], uniqueElements[i])
        IN S[Len(uniqueElements)]
      addTop(kept, x) ==
        IF \E k \in 1..Len(kept) : contains(doc, kept[k], x) THEN kept
        ELSE Append(kept, x)
      pruned(sorted) ==
        LET P[i \in 0..Len(sorted)] ==
              IF i = 0 THEN <<>> ELSE addTop(P[i - 1], sorted[i])
        IN P[Len(sorted)]
  IN pruned(byDepth(U[Len(elements)]))

\* The elements of seq (indices, in order) that satisfy Test.
SelectIndices(n, Test(_)) ==
  LET F[i \in 0..n] == IF i = 0 THEN <<>>
                       ELSE IF Test(i) THEN Append(F[i - 1], i) ELSE F[i - 1]
  IN F[n]

\* buildUniqueSelector: every element of a document has its own selector.
buildUniqueSelector(doc, i) == doc.els[i].uniq

\* A collection that takes every matching element, shown or not
collectRegionSelectors_all(doc, candidateSelectors) ==
  LET matchesOf(selector) ==
        LET test(i) == selector \in doc.els[i].sels
        IN SelectIndices(Len(doc.els), test)
      M[c \in 0..Len(candidateSelectors)] ==
        IF c = 0 THEN <<>> ELSE M[c - 1] \o matchesOf(candidateSelectors[c])
      selectorsOf(selected) ==
        IF selected = <<>> THEN <<>>
        ELSE [k \in 1..Len(selected) |-> buildUniqueSelector(doc, selected[k])]
  IN selectorsOf(dedupeTopLevelElements(doc, M[Len(candidateSelectors)]))

collectRegionSelectors(doc, candidateSelectors) ==
  LET matchesOf(selector) ==
        LET test(i) == selector \in doc.els[i].sels /\ isOnScreenAndVisible(doc, i)
        IN SelectIndices(Len(doc.els), test)
      M[c \in 0..Len(candidateSelectors)] ==
        IF c = 0 THEN <<>> ELSE M[c - 1] \o matchesOf(candidateSelectors[c])
      selectorsOf(selected) ==
        IF selected = <<>> THEN <<>>
        ELSE [k \in 1..Len(selected) |-> buildUniqueSelector(doc, selected[k])]
  IN selectorsOf(dedupeTopLevelElements(doc, M[Len(candidateSelectors)]))

isInteractiveElement(el) ==
  \/ el.tagName \in {"button", "a"}
  \/ el.role \in {"button", "link"}
  \/ el.style.cursor = "pointer"
  \/ el.hasOnClick
  \/ el.hasTabIndex

isFabLikeFloatingControl(doc, i) ==
  LET el == doc.els[i]
      style == el.style
      rect == el.rect
      width == rect.right - rect.left
      height == rect.bottom - rect.top
      minDimension == Min(width, height)
      maxDimension == Max(width, height)
      floatingPosition ==
        \/ style.position = "fixed"
        \/ style.position = "sticky"
        \/ style.position = "absolute" /\ style.zIndex >= 20
      nearBottomRight ==
        rect.right >= doc.innerWidth - 200 /\ rect.bottom >= doc.innerHeight - 200
      \* radius >= minDimension * 0.35, the radius in px
      isRounded == el.circleClass \/ style.borderRadius * 100 >= minDimension * 35
  IN /\ isOnScreenAndVisible(doc, i)
     /\ floatingPosition
     /\ ~(minDimension < 32 \/ maxDimension > 120)
     /\ nearBottomRight
     /\ isInteractiveElement(el)
     /\ isRounded

collectFabSelectors(doc) ==
  LET test(i) == /\ isOnScreenAndVisible(doc, i)
                 /\ \/ doc.els[i].fabToken
                    \/ isFabLikeFloatingControl(doc, i)
      selectorsOf(selected) ==
        IF selected = <<>> THEN <<>>
        ELSE [k \in 1..Len(selected) |-> buildUniqueSelector(doc, selected[k])]
  IN selectorsOf(dedupeTopLevelElements(doc, SelectIndices(Len(doc.els), test)))

\* The regions of a document: the page function of getMyheloActiveRegions.
\* A region assembly that lists the FAB before the panes
activeRegions_fabFirst(doc) ==
  LET push(regions, key, title, selectors) ==
        IF selectors # <<>>
          THEN Append(regions, [key |-> key, title |-> title, selectors |-> selectors])
          ELSE regions
      visit(regions, definition) ==
        push(regions, definition.key, definition.title,
             collectRegionSelectors(doc, definition.candidates))
      R[d \in 0..Len(RegionDefinitions)] ==
        IF d = 0 THEN push(<<>>, "fab", "FAB", collectFabSelectors(doc))
        ELSE visit(R[d - 1], RegionDefinitions[d])
  IN IF ~hasMyheloSubLayout(doc) THEN <<>> ELSE R[Len(RegionDefinitions)]

activeRegions(doc) ==
  LET push(regions, key, title, selectors) ==
        IF selectors # <<>>
          THEN Append(regions, [key |-> key, title |-> title, selectors |-> selectors])
          ELSE regions
      visit(regions, definition) ==
        push(regions, definition.key, definition.title,
             collectRegionSelectors(doc, definition.candidates))
      R[d \in 0..Len(RegionDefinitions)] ==
        IF d = 0 THEN <<>> ELSE visit(R[d - 1], RegionDefinitions[d])
  IN IF ~hasMyheloSubLayout(doc) THEN <<>>
     ELSE push(R[Len(RegionDefinitions)], "fab", "FAB", collectFabSelectors(doc))

\* getMyheloActiveRegions: page.evaluate inside try/catch; a query that
\* throws is logged and gives no region.
getMyheloActiveRegions(doc) ==
  [rejected |-> FALSE, regions |-> IF doc.detectThrows THEN <<>> ELSE activeRegions(doc)]

(***************************************************************************)
(* The state machine: getEnhancedSnapshot invocations over one page.       *)
(*                                                                         *)
(* page   the collaborators: the document region detection queries, and,   *)
(*        per scope, what ariaSnapshot and the cursor query answer         *)
(* opts   the options of each invocation                                   *)
(* serial whether the caller awaits one invocation before the next         *)
(* refCounter  the module-level counter, shared by all invocations         *)
(* call   per invocation: where it is suspended (pc) and its locals, and   *)
(*        `issued`, the ids nextRef has returned to it so far, in order    *)
(* overlap  whether an invocation has started while another was suspended  *)
(***************************************************************************)
VARIABLES page, opts, serial, refCounter, call, overlap

vars == <<page, opts, serial, refCounter, call, overlap>>

\* One invocation per call the caller makes
Invocations == DOMAIN opts

Options(interactive, cursor, maxDepth, compact, selector) ==
  [interactive |-> interactive, cursor |-> cursor, maxDepth |-> maxDepth,
   compact |-> compact, selector |-> selector]

\* page.locator(options.selector) or page.locator(':root'); the cursor
\* query takes the same selector (or body).
ScopeKey(selector) == IF selector = NoSelector THEN ":root" ELSE selector

Frame0 ==
  [pc |-> "idle", refs |-> <<>>, tracker |-> createRoleNameTracker,
   regions |-> <<>>, ri |-> 0, si |-> 0, sectionParts |-> <<>>, sections |-> <<>>,
   enhancedTree |-> <<>>, tree |-> <<>>, issued |-> <<>>]

Busy(i) == call[i].pc \in {"detect", "aria", "cursor"}

\* { ...options, selector } of the scope the invocation is at
scopeOptions(f, options) ==
  IF f.regions # <<>>
    THEN [options EXCEPT !.selector = f.regions[f.ri].selectors[f.si]]
    ELSE options

Heading(title) == OwnLine("heading", "# " \o title \o ":")

\* sectionParts.join('\n'): the lines of the parts, one after the other
RECURSIVE JoinParts(_)
JoinParts(parts) == IF parts = <<>> THEN <<>> ELSE parts[1] \o JoinParts(Tail(parts))

\* sections.join('\n\n'): a blank line between two sections
RECURSIVE JoinSections(_)
JoinSections(sections) ==
  IF sections = <<>> THEN <<>>
  ELSE IF Len(sections) = 1 THEN sections[1]
  ELSE sections[1] \o <<BlankLine>> \o JoinSections(Tail(sections))

\* A section that forgets the parts before an empty scoped tree
pushPart_reset(sectionParts, scopedTree) ==
  IF scopedTree = <<>> \/ scopedTree = <<EmptyMarker>> \/ scopedTree = <<NoInteractiveMarker>>
    THEN <<>>
    ELSE Append(sectionParts, scopedTree)

\* buildMyheloRegionSection, one iteration: an empty scoped tree is skipped
pushPart(sectionParts, scopedTree) ==
  IF scopedTree = <<>> \/ scopedTree = <<EmptyMarker>> \/ scopedTree = <<NoInteractiveMarker>>
    THEN sectionParts
    ELSE Append(sectionParts, scopedTree)

\* A section that is left blank when every part was empty
sectionTreeOf_blank(sectionParts, options) ==
  IF sectionParts # <<>> THEN JoinParts(sectionParts) ELSE <<>>

\* buildMyheloRegionSection, its return value
sectionTreeOf(sectionParts, options) ==
  IF sectionParts # <<>> THEN JoinParts(sectionParts)
  ELSE IF options.interactive THEN <<NoInteractiveMarker>> ELSE <<EmptyMarker>>

\* getEnhancedSnapshot from the return of getEnhancedSnapshotForScope up to
\* the next await, or to its own return: the frame after.
afterScope(f, scopedTree, options) ==
  LET region == f.regions[f.ri]
      sectionOf(parts) == <<Heading(region.title)>> \o sectionTreeOf(parts, options)
      last(parts, sections, refs) ==
        [f EXCEPT !.sections = sections, !.sectionParts = parts, !.refs = refs,
                  !.tree = JoinSections(sections), !.pc = "done"]
      resume(parts, refs) ==
        IF f.si < Len(region.selectors)
          THEN [f EXCEPT !.sectionParts = parts, !.si = f.si + 1, !.pc = "aria"]
        ELSE IF f.ri < Len(f.regions)
          THEN [f EXCEPT !.sections = Append(f.sections, sectionOf(parts)),
                         !.sectionParts = <<>>, !.ri = f.ri + 1, !.si = 1, !.pc = "aria"]
        ELSE last(parts, Append(f.sections, sectionOf(parts)), refs)
      return(refs) ==
        IF f.regions = <<>>
          THEN [f EXCEPT !.refs = refs, !.tree = scopedTree, !.pc = "done"]
          ELSE resume(pushPart(f.sectionParts, scopedTree), refs)
  IN return(removeNthFromNonDuplicates(f.refs, f.tracker))

\* A call made without awaiting the calls before it, whatever the caller
\* promised
Start_unawaited(i) ==
  /\ call[i].pc = "idle"
  /\ i > 1 => call[i - 1].pc # "idle"
  /\ refCounter' = resetRefs(refCounter)
  /\ call' = [call EXCEPT ![i] =
                [Frame0 EXCEPT !.pc = IF opts[i].selector = NoSelector
                                        THEN "detect" ELSE "aria"]]
  /\ overlap' = (overlap \/ \E j \in Invocations \ {i} : Busy(j))
  /\ UNCHANGED <<page, opts, serial>>

\* A call that asks for the regions whether or not a selector is given
Start_detectFirst(i) ==
  /\ call[i].pc = "idle"
  /\ i > 1 => call[i - 1].pc # "idle"
  /\ serial => \A j \in Invocations \ {i} : ~Busy(j)
  /\ refCounter' = resetRefs(refCounter)
  /\ call' = [call EXCEPT ![i] = [Frame0 EXCEPT !.pc = "detect"]]
  /\ overlap' = (overlap \/ \E j \in Invocations \ {i} : Busy(j))
  /\ UNCHANGED <<page, opts, serial>>

\* The call: resetRefs(), the fresh RefMap and tracker, and the first await.
Start(i) ==
  /\ call[i].pc = "idle"
  /\ i > 1 => call[i - 1].pc # "idle"
  /\ serial => \A j \in Invocations \ {i} : ~Busy(j)
  /\ refCounter' = resetRefs(refCounter)
  /\ call' = [call EXCEPT ![i] =
                [Frame0 EXCEPT !.pc = IF opts[i].selector = NoSelector
                                        THEN "detect" ELSE "aria"]]
  /\ overlap' = (overlap \/ \E j \in Invocations \ {i} : Busy(j))
  /\ UNCHANGED <<page, opts, serial>>

\* `await getMyheloActiveRegions(page)` returns.
Detect(i) ==
  LET f == call[i]
      first(regions) == IF regions # <<>> THEN 1 ELSE 0
      resume(r) ==
        IF r.rejected THEN [f EXCEPT !.pc = "rejected"]
        ELSE [f EXCEPT !.regions = r.regions, !.ri = first(r.regions),
                       !.si = first(r.regions), !.pc = "aria"]
  IN /\ f.pc = "detect"
     /\ call' = [call EXCEPT ![i] = resume(getMyheloActiveRegions(page.doc))]
     /\ UNCHANGED <<page, opts, serial, refCounter, overlap>>

\* `await locator.ariaSnapshot()` returns or throws: the tree filter runs,
\* and the scope ends unless the cursor query is awaited next.
Aria(i) ==
  LET f == call[i]
      options == scopeOptions(f, opts[i])
      held(a) == [f EXCEPT !.refs = a.ctx.refs, !.tracker = a.ctx.tracker,
                           !.enhancedTree = a.tree,
                           !.issued = a.ctx.issued]
  IN /\ f.pc = "aria"
     /\ \E a \in {scopeTree(page.aria[ScopeKey(options.selector)],
                             Ctx(f.refs, f.tracker, refCounter, f.issued), options)} :
          /\ refCounter' = a.ctx.counter
          /\ call' = [call EXCEPT ![i] =
                        IF a.rejected THEN [f EXCEPT !.pc = "rejected"]
                        ELSE IF options.cursor THEN [held(a) EXCEPT !.pc = "cursor"]
                        ELSE afterScope(held(a), a.tree, opts[i])]
     /\ UNCHANGED <<page, opts, serial, overlap>>

\* `await findCursorInteractiveElements(page, options.selector)` returns.
Cursor(i) ==
  LET f == call[i]
      options == scopeOptions(f, opts[i])
  IN /\ f.pc = "cursor"
     /\ \E q \in {findCursorInteractiveElements(page.cursor[ScopeKey(options.selector)])} :
          \E c \in {scopeCursor(f.enhancedTree, q.els,
                                  Ctx(f.refs, f.tracker, refCounter, f.issued))} :
            /\ refCounter' = IF q.rejected THEN refCounter ELSE c.ctx.counter
            /\ call' = [call EXCEPT ![i] =
                          IF q.rejected THEN [f EXCEPT !.pc = "rejected"]
                          ELSE afterScope(
                                 [f EXCEPT !.refs = c.ctx.refs, !.issued = c.ctx.issued],
                                 c.tree, opts[i])]
     /\ UNCHANGED <<page, opts, serial, overlap>>

Next ==
  \/ \E i \in Invocations : Start(i)
  \/ \E i \in Invocations : Detect(i)
  \/ \E i \in Invocations : Aria(i)
  \/ \E i \in Invocations : Cursor(i)

(***************************************************************************)
(* Inputs: documents, accessibility trees, cursor results, options         *)
(***************************************************************************)
MaxLines == 3

Style(display, position, cursor, borderRadius) ==
  [display |-> display, visibility |-> "visible", opacity |-> "1",
   pointerEvents |-> "auto", position |-> position, zIndex |-> 0,
   cursor |-> cursor, borderRadius |-> borderRadius]

Rect(left, top, right, bottom) ==
  [left |-> left, top |-> top, right |-> right, bottom |-> bottom]

\* A div of the shell: shown "on" (at its place), "off" (translated out of
\* the viewport by dx) or "hidden" (display: none, an empty rect).
Div(id, parent, shown, rect, dx) ==
  [uniq |-> "#" \o id, sels |-> {"#" \o id}, parent |-> parent,
   tagName |-> "div", role |-> "", hasOnClick |-> FALSE, hasTabIndex |-> FALSE,
   fabToken |-> FALSE, circleClass |-> FALSE,
   style |-> Style(IF shown = "hidden" THEN "none" ELSE "block", "fixed", "auto", 0),
   rect |-> IF shown = "hidden" THEN Rect(0, 0, 0, 0)
            ELSE IF shown = "off"
              THEN Rect(rect.left + dx, rect.top, rect.right + dx, rect.bottom)
            ELSE rect]

\* <button id="chat-fab" class="fab">: the class is the FAB token
FabButton(shown) ==
  [Div("chat-fab", 0, shown, Rect(1200, 592, 1256, 648), 0)
     EXCEPT !.tagName = "button", !.fabToken = TRUE,
            !.style = Style(IF shown = "hidden" THEN "none" ELSE "flex",
                            "fixed", "pointer", 28)]

\* <button class="circle">: a floating round control without the token
CircleButton(shown) ==
  [Div("circle", 0, shown, Rect(1200, 592, 1248, 640), 0)
     EXCEPT !.uniq = "button.circle", !.sels = {}, !.tagName = "button",
            !.circleClass = TRUE,
            !.style = Style(IF shown = "hidden" THEN "none" ELSE "block",
                            "fixed", "pointer", 24)]

Doc(els) == [els |-> els, innerWidth |-> 1280, innerHeight |-> 672, detectThrows |-> FALSE]

\* The shell of the layout tests: sidebar header and center, contents
\* center, drawer container with its header inside, and a FAB.
Shown == {"absent", "on", "off"}
FabShown == {"absent", "on", "hidden", "circle"}

Layout(sidebar, contents, drawer, fab) ==
  LET sb == IF sidebar = "absent" THEN <<>>
            ELSE << Div("sidebar-header", 0, sidebar, Rect(0, 0, 300, 76), -340),
                    Div("sidebar-center", 0, sidebar, Rect(0, 76, 300, 552), -340) >>
      ct == IF contents = "absent" THEN <<>>
            ELSE << Div("contents-center", 0, contents, Rect(308, 76, 1280, 552), 1000) >>
      at == Len(sb) + Len(ct) + 1
      dr == IF drawer = "absent" THEN <<>>
            ELSE << Div("drawer-container", 0, drawer, Rect(920, 0, 1280, 672), 376),
                    Div("drawer-header", at, drawer, Rect(920, 0, 1280, 76), 376) >>
      fb == IF fab = "absent" THEN <<>>
            ELSE IF fab = "circle" THEN <<CircleButton("on")>>
            ELSE <<FabButton(fab)>>
  IN Doc(sb \o ct \o dr \o fb)

\* What ariaSnapshot answers: lines, nothing (""), or an exception
AriaText(lines) == [threw |-> FALSE, lines |-> lines]
AriaNothing == [threw |-> FALSE, lines |-> <<>>]
AriaThrows == [threw |-> TRUE, lines |-> <<>>]

\* What the cursor query answers: elements, or an exception
CursorFound(els) == [threw |-> FALSE, els |-> els]
CursorThrows == [threw |-> TRUE, els |-> <<>>]

TreesOver(lineSet, n) == UNION {[1..k -> lineSet] : k \in 1..n}

MainLines ==
  { AriaLine(0, "button", "A", ""),
    AriaLine(2, "button", "A", " [disabled]:"),
    AriaLine(0, "heading", "A", " [level=1]"),
    AriaLine(3, "listitem", "", ": text"),
    AriaLine(0, "list", "", ":"),
    AriaLine(0, "navigation", "", ":"),
    AriaLine(4, "link", "", ":"),
    TextLine(4, "- /url: x") }

\* The trees of the scopes of a shell: a button, a bare list, a heading
\* over a button
RegionTrees ==
  { << AriaLine(0, "button", "A", "") >>,
    << AriaLine(0, "list", "", "") >>,
    << AriaLine(0, "heading", "A", " [level=1]"), AriaLine(2, "button", "A", "") >> }

CursorResults ==
  { CursorThrows,
    CursorFound(<< CursorEl("#a", "A", TRUE, FALSE, FALSE),
                   CursorEl("div > span", "A", FALSE, TRUE, FALSE),
                   CursorEl("#t", "B", FALSE, FALSE, TRUE) >>) }

RegionCursorResults ==
  { CursorThrows, CursorFound(<< CursorEl("#a", "A", TRUE, FALSE, FALSE) >>) }

DepthOpts == {NoDepth, 0, 1}

OptionSet ==
  { Options(i, c, d, k, s) : i \in BOOLEAN, c \in BOOLEAN, d \in DepthOpts,
                             k \in BOOLEAN, s \in {NoSelector, "#sel"} }

\* The scopes a snapshot of the document with these options asks for
AskedScopes(doc, o) ==
  LET scopesOf(regions) ==
        IF regions = <<>> THEN {":root"}
        ELSE UNION {{regions[r].selectors[k] : k \in 1..Len(regions[r].selectors)}
                      : r \in 1..Len(regions)}
  IN IF o.selector # NoSelector THEN {o.selector}
     ELSE scopesOf(getMyheloActiveRegions(doc).regions)

Page(doc, ariaOf, cursorOf) == [doc |-> doc, aria |-> ariaOf, cursor |-> cursorOf]

\* The pages of a document: every scope asked answers one of `arias`, and,
\* when the cursor option is set, one of `cursors`.
PagesOf(doc, o, arias, cursors) ==
  LET over(asked) ==
        { Page(doc, a, c) :
            a \in [asked -> arias],
            c \in IF o.cursor THEN [asked -> cursors] ELSE {[s \in asked |-> CursorThrows]} }
  IN over(AskedScopes(doc, o))

\* The same, every scope answering alike.
UniformPagesOf(doc, o, arias, cursors) ==
  LET over(asked) ==
        { Page(doc, [s \in asked |-> a], [s \in asked |-> c]) :
            a \in arias, c \in IF o.cursor THEN cursors ELSE {CursorThrows} }
  IN over(AskedScopes(doc, o))

AriasOver(trees) == {AriaThrows, AriaNothing} \cup {AriaText(t) : t \in trees}

NoShell == Doc(<<>>)
FullShell == Layout("on", "on", "on", "on")
TwoRegions == Layout("on", "on", "absent", "absent")
DetectFails == [FullShell EXCEPT !.detectThrows = TRUE]

\* Pages snapshotted as one scope: no shell, with trees of up to n lines;
\* a selector option, or a region detection that throws, with trees one
\* line shorter.
WholePages(o, n) ==
  IF o.selector # NoSelector
    THEN PagesOf(NoShell, o, AriasOver(TreesOver(MainLines, n - 1)), CursorResults)
    ELSE PagesOf(NoShell, o, AriasOver(TreesOver(MainLines, n)), CursorResults)
           \cup PagesOf(DetectFails, o, AriasOver(TreesOver(MainLines, n - 1)),
                        CursorResults)

\* Pages snapshotted region by region: two regions of three scopes that
\* answer independently, and the full shell whose scopes answer alike.
RegionPages(o) ==
  IF o.selector # NoSelector THEN {}
  ELSE PagesOf(TwoRegions, o, AriasOver(RegionTrees) \ {AriaNothing}, RegionCursorResults)
         \cup UniformPagesOf(FullShell, o, AriasOver(RegionTrees), RegionCursorResults)

\* The pages two calls in a row are made against
PairPages(o) == WholePages(o, MaxLines - 1) \cup RegionPages(o)

InitOf(p, os, s) ==
  /\ page = p
  /\ opts = os
  /\ serial = s
  /\ refCounter = 0
  /\ call = [i \in DOMAIN os |-> Frame0]
  /\ overlap = FALSE

(***************************************************************************)
(* Specifications                                                          *)
(***************************************************************************)
\* One call, every option set, whole pages and shells.
Init ==
  \E o \in OptionSet :
    \E p \in WholePages(o, MaxLines) \cup RegionPages(o) : InitOf(p, <<o>>, TRUE)

Spec == Init /\ [][Next]_vars

\* Two calls in a row with the same options against the same page.
InitTwice ==
  \E o \in OptionSet : \E p \in PairPages(o) : InitOf(p, <<o, o>>, TRUE)

SpecTwice == InitTwice /\ [][Next]_vars

\* Two calls in a row that differ in maxDepth only: the first limit is
\* below the second, or the second call has none.
DepthPairs ==
  { <<o, [o EXCEPT !.maxDepth = d]>> :
      o \in {x \in OptionSet : x.maxDepth # NoDepth},
      d \in DepthOpts }

InitDepth ==
  \E os \in {x \in DepthPairs : x[2].maxDepth = NoDepth \/ x[1].maxDepth < x[2].maxDepth} :
    \E p \in PairPages(os[1]) : InitOf(p, os, TRUE)

SpecDepth == InitDepth /\ [][Next]_vars

\* Two calls in a row: the full tree, then the compact one.
InitCompact ==
  \E o \in {x \in OptionSet : ~x.compact} :
    \E p \in PairPages(o) : InitOf(p, <<o, [o EXCEPT !.compact = TRUE]>>, TRUE)

SpecCompact == InitCompact /\ [][Next]_vars

\* Two calls in a row: full mode without maxDepth, then interactive mode.
InitInteractive ==
  \E o \in {x \in OptionSet : ~x.interactive /\ x.maxDepth = NoDepth} :
    \E p \in WholePages(o, MaxLines) \cup RegionPages(o) :
      InitOf(p, <<o, [o EXCEPT !.interactive = TRUE]>>, TRUE)

SpecInteractive == InitInteractive /\ [][Next]_vars

\* Two calls on one page whose caller may start the second while the
\* first is suspended at an await.
ConcLines == {AriaLine(0, "button", "A", ""), AriaLine(0, "heading", "A", " [level=1]")}

ConcOptions == {Options(FALSE, c, NoDepth, FALSE, NoSelector) : c \in BOOLEAN}

InitConc ==
  \E o1 \in ConcOptions, o2 \in ConcOptions, s \in BOOLEAN :
    \E p \in PagesOf(NoShell, Options(FALSE, TRUE, NoDepth, FALSE, NoSelector),
                     AriasOver(TreesOver(ConcLines, MaxLines - 1)), CursorResults)
              \cup UniformPagesOf(TwoRegions,
                                  Options(FALSE, TRUE, NoDepth, FALSE, NoSelector),
                                  AriasOver(RegionTrees), RegionCursorResults) :
      InitOf(p, <<o1, o2>>, s)

SpecConc == InitConc /\ [][Next]_vars

\* One call against every arrangement of the shell.
Layouts ==
  { Layout(sb, ct, dr, fab) : sb \in Shown, ct \in Shown, dr \in Shown, fab \in FabShown }

InitLayout ==
  \E o \in {x \in OptionSet : x.maxDepth = NoDepth /\ x.selector = NoSelector} :
    \E doc \in Layouts :
      \E p \in UniformPagesOf(doc, o, AriasOver(RegionTrees), RegionCursorResults) :
        InitOf(p, <<o>>, TRUE)

SpecLayout == InitLayout /\ [][Next]_vars

\* One call, with and without the selector option, against a page that
\* matches the shell.
InitScoped ==
  \E o \in OptionSet : \E doc \in {FullShell, TwoRegions} :
    \E p \in UniformPagesOf(doc, o, AriasOver(RegionTrees), RegionCursorResults) :
      InitOf(p, <<o>>, TRUE)

SpecScoped == InitScoped /\ [][Next]_vars

\* One call with the cursor option against pages whose cursor query meets
\* up to MaxCandidates candidates, in every containment forest.
MaxCandidates == 3

\* What a candidate can be: a titled wrapper with its own cursor style, an
\* aria-labelled element, an element that inherits the pointer cursor, an
\* element with onclick, an element with a tabindex.
CandidateKinds ==
  { [text |-> "Settings", hasCursorPointer |-> TRUE, hasOnClick |-> FALSE,
     hasTabIndex |-> FALSE, hasTitle |-> TRUE, hasAriaLabel |-> FALSE,
     hasDirectCursorPointer |-> TRUE],
    [text |-> "Menu", hasCursorPointer |-> TRUE, hasOnClick |-> FALSE,
     hasTabIndex |-> FALSE, hasTitle |-> FALSE, hasAriaLabel |-> TRUE,
     hasDirectCursorPointer |-> FALSE],
    [text |-> "Settings", hasCursorPointer |-> TRUE, hasOnClick |-> FALSE,
     hasTabIndex |-> FALSE, hasTitle |-> FALSE, hasAriaLabel |-> FALSE,
     hasDirectCursorPointer |-> FALSE],
    [text |-> "A", hasCursorPointer |-> FALSE, hasOnClick |-> TRUE,
     hasTabIndex |-> FALSE, hasTitle |-> FALSE, hasAriaLabel |-> FALSE,
     hasDirectCursorPointer |-> FALSE],
    [text |-> "B", hasCursorPointer |-> FALSE, hasOnClick |-> FALSE,
     hasTabIndex |-> TRUE, hasTitle |-> FALSE, hasAriaLabel |-> FALSE,
     hasDirectCursorPointer |-> FALSE] }

\* The ancestors of place k among the candidates, by the `within` places w
RECURSIVE AncestorsIn(_, _)
AncestorsIn(w, k) == IF w[k] = 0 THEN {} ELSE {w[k]} \cup AncestorsIn(w, w[k])

\* The containment forests of n elements listed in document order: an
\* ancestor comes before its descendants, which follow it without a gap.
Forests(n) ==
  { w \in [1..n -> 0..(n - 1)] :
      \A k \in 1..n :
        /\ w[k] < k
        /\ w[k] # 0 => \A j \in (w[k] + 1)..(k - 1) : w[k] \in AncestorsIn(w, j) }

CandidateLists ==
  UNION { { [k \in 1..n |->
               Candidate("#c" \o ToString(k), kinds[k].text, kinds[k].hasCursorPointer,
                         kinds[k].hasOnClick, kinds[k].hasTabIndex, kinds[k].hasTitle,
                         kinds[k].hasAriaLabel, kinds[k].hasDirectCursorPointer,
                         1 + Cardinality(AncestorsIn(w, k)), w[k])] :
              w \in Forests(n), kinds \in [1..n -> CandidateKinds] } :
          n \in 1..MaxCandidates }

InitCursor ==
  \E o \in {x \in OptionSet : x.cursor /\ ~x.compact /\ x.maxDepth = NoDepth} :
    \E p \in PagesOf(NoShell, o,
                     {AriaThrows, AriaNothing, AriaText(<<AriaLine(0, "button", "A", "")>>)},
                     {CursorThrows} \cup {CursorFound(l) : l \in CandidateLists}) :
      InitOf(p, <<o>>, TRUE)

SpecCursor == InitCursor /\ [][Next]_vars

\* One call in full or compact mode against whole pages whose lines carry
\* roles of every class, in either case, named and unnamed, nested.
RoleLines ==
  { AriaLine(0, "Button", "A", ""),
    AriaLine(2, "button", "A", ""),
    AriaLine(2, "link", "", ""),
    AriaLine(0, "heading", "", ""),
    AriaLine(2, "Heading", "A", " [level=1]"),
    AriaLine(0, "list", "X", ":"),
    AriaLine(0, "group", "", ":"),
    AriaLine(0, "paragraph", "", ": text"),
    TextLine(2, "- /url: x") }

InitRoles ==
  \E o \in {x \in OptionSet : ~x.interactive /\ x.selector = NoSelector} :
    \E p \in PagesOf(NoShell, o, AriasOver(TreesOver(RoleLines, MaxLines)),
                     RegionCursorResults) :
      InitOf(p, <<o>>, TRUE)

SpecRoles == InitRoles /\ [][Next]_vars

\* One call against whole pages whose buttons, links and cursor-interactive
\* elements are labelled with icon glyphs: one the table knows, one it does
\* not, alone and mixed with text.
GlyphLines ==
  { AriaLine(0, "button", "{F01D9}", ""),
    AriaLine(0, "link", "Menu{F0156}{E00A}", ""),
    AriaLine(2, "button", "A", ""),
    AriaLine(0, "heading", "A", " [level=1]") }

GlyphCursorResults ==
  { CursorThrows,
    CursorFound(<< CursorEl("#g", "{E00A}{F01D9}", TRUE, FALSE, FALSE),
                   CursorEl("#m", "Menu{F0156}{E00A}", FALSE, TRUE, FALSE),
                   CursorEl("#a", "A", FALSE, FALSE, TRUE) >>) }

InitGlyph ==
  \E o \in OptionSet :
    \E p \in PagesOf(NoShell, o, AriasOver(TreesOver(GlyphLines, MaxLines - 1)),
                     GlyphCursorResults) :
      InitOf(p, <<o>>, TRUE)

SpecGlyph == InitGlyph /\ [][Next]_vars

\* One call against whole pages whose lines carry inline text after a
\* colon: structural, content and other roles, named and unnamed, a
\* childless named list, a button, and two lines outside the line grammar,
\* a metadata line and the continuation of a text.
InlineLines ==
  { AriaLine(0, "group", "", ": text"),
    AriaLine(0, "list", "X", ": text"),
    AriaLine(2, "listitem", "", ": text"),
    AriaLine(0, "paragraph", "", ": text"),
    AriaLine(0, "list", "X", ":"),
    AriaLine(2, "button", "A", ""),
    TextLine(2, "- /url: x"),
    TextLine(4, "more text") }

InitInline ==
  \E o \in OptionSet :
    \E p \in PagesOf(NoShell, o, AriasOver(TreesOver(InlineLines, MaxLines - 1)),
                     RegionCursorResults) :
      InitOf(p, <<o>>, TRUE)

SpecInline == InitInline /\ [][Next]_vars

\* One call with the cursor option against pages whose candidates are
\* titled wrappers (with a pointer cursor of their own, or with a tabindex
\* only) around and beside aria-labelled and unlabelled candidates with
\* every other signal.
TitledKinds ==
  { [text |-> "Settings", hasCursorPointer |-> TRUE, hasOnClick |-> FALSE,
     hasTabIndex |-> FALSE, hasTitle |-> TRUE, hasAriaLabel |-> FALSE,
     hasDirectCursorPointer |-> FALSE],
    [text |-> "Help", hasCursorPointer |-> FALSE, hasOnClick |-> FALSE,
     hasTabIndex |-> TRUE, hasTitle |-> TRUE, hasAriaLabel |-> FALSE,
     hasDirectCursorPointer |-> FALSE],
    [text |-> "Menu", hasCursorPointer |-> TRUE, hasOnClick |-> TRUE,
     hasTabIndex |-> TRUE, hasTitle |-> FALSE, hasAriaLabel |-> TRUE,
     hasDirectCursorPointer |-> TRUE],
    [text |-> "A", hasCursorPointer |-> TRUE, hasOnClick |-> TRUE,
     hasTabIndex |-> FALSE, hasTitle |-> FALSE, hasAriaLabel |-> FALSE,
     hasDirectCursorPointer |-> TRUE] }

TitledLists ==
  UNION { { [k \in 1..n |->
               Candidate("#c" \o ToString(k), kinds[k].text, kinds[k].hasCursorPointer,
                         kinds[k].hasOnClick, kinds[k].hasTabIndex, kinds[k].hasTitle,
                         kinds[k].hasAriaLabel, kinds[k].hasDirectCursorPointer,
                         1 + Cardinality(AncestorsIn(w, k)), w[k])] :
              w \in Forests(n), kinds \in [1..n -> TitledKinds] } :
          n \in 1..MaxCandidates }

InitTitled ==
  \E o \in {x \in OptionSet : x.cursor /\ ~x.compact /\ x.maxDepth = NoDepth} :
    \E p \in PagesOf(NoShell, o,
                     {AriaThrows, AriaNothing, AriaText(<<AriaLine(0, "button", "A", "")>>)},
                     {CursorThrows} \cup {CursorFound(l) : l \in TitledLists}) :
      InitOf(p, <<o>>, TRUE)

SpecTitled == InitTitled /\ [][Next]_vars

\* One call with the cursor option against pages whose cursor query meets
\* up to MaxCandidates candidates in every containment forest: fewer than
\* MaxCandidates with every combination of the five signals that count in
\* the score, MaxCandidates with every combination of four of them (no
\* onclick).  An element without onclick and tabindex is a candidate by
\* its pointer cursor.
ScoreKinds ==
  { [text |-> IF t THEN "Settings" ELSE IF a THEN "Menu" ELSE "A",
     hasCursorPointer |-> d \/ ~(c \/ x), hasOnClick |-> c, hasTabIndex |-> x,
     hasTitle |-> t, hasAriaLabel |-> a, hasDirectCursorPointer |-> d] :
      t \in BOOLEAN, a \in BOOLEAN, d \in BOOLEAN, c \in BOOLEAN, x \in BOOLEAN }

\* The candidates of a query: of the given kinds, in the forest w
ScoreList(w, kinds) ==
  [k \in DOMAIN kinds |->
     Candidate("#c" \o ToString(k), kinds[k].text, kinds[k].hasCursorPointer,
               kinds[k].hasOnClick, kinds[k].hasTabIndex, kinds[k].hasTitle,
               kinds[k].hasAriaLabel, kinds[k].hasDirectCursorPointer,
               1 + Cardinality(AncestorsIn(w, k)), w[k])]

InitScore ==
  \E n \in 1..MaxCandidates :
    \E w \in Forests(n) :
      \E kinds \in [1..n -> IF n < MaxCandidates THEN ScoreKinds
                            ELSE {x \in ScoreKinds : ~x.hasOnClick}] :
        InitOf(Page(NoShell, [s \in {":root"} |-> AriaNothing],
                    [s \in {":root"} |-> CursorFound(ScoreList(w, kinds))]),
               <<Options(FALSE, TRUE, NoDepth, FALSE, NoSelector)>>, TRUE)

SpecScore == InitScore /\ [][Next]_vars

(***************************************************************************)
(* Properties                                                              *)
(***************************************************************************)
Done(i) == call[i].pc = "done"

BothDone == Len(opts) = 2 /\ Done(1) /\ Done(2)

Range(seq) == {seq[k] : k \in DOMAIN seq}

Keep(seq, Test(_)) == SelectSeq(seq, Test)

\* The numbers a ref id is read against
RefNumbers == 1..(5 * (MaxLines + 3))

IsRefId(id) == \E k \in RefNumbers : id = "e" \o ToString(k)

RefNumber(id) == CHOOSE k \in RefNumbers : id = "e" \o ToString(k)

NoRepeat(seq) == \A j, k \in DOMAIN seq : j < k => seq[j] # seq[k]

\* The ids on the lines of a tree, in text order
TreeRefIds(tree) ==
  LET withRef == Keep(tree, LAMBDA l : l.ref # NoRef)
  IN [k \in DOMAIN withRef |-> withRef[k].ref]

\* The lines of a tree that come from the accessibility tree
TreeLines(tree) == Keep(tree, LAMBDA l : l.kind \in {"aria", "text"})

\* C1: after one call run alone, every ref id issued, emitted in the tree or
\* stored in the RefMap has the form e<k>, k >= 1; no id is issued twice;
\* and the ids on the lines of the tree are strictly increasing in text
\* order (across region sections, a scope's cursor lines after its tree
\* lines).
C1_RefIdsUniqueIncreasing ==
  \A i \in Invocations :
    Done(i) =>
      LET f == call[i]
          ids == TreeRefIds(f.tree)
      IN /\ \A k \in DOMAIN f.issued : IsRefId(f.issued[k])
         /\ NoRepeat(f.issued)
         /\ \A k \in DOMAIN f.refs : f.refs[k].ref \in Range(f.issued)
         /\ \A k \in DOMAIN ids : ids[k] \in Range(f.issued)
         /\ \A j, k \in DOMAIN ids : j < k => RefNumber(ids[j]) < RefNumber(ids[k])

\* A partitioned page whose call with the cursor option has returned with
\* refs in two sections and cursor lines after tree lines.
C1_Witness ==
  /\ Done(1)
  /\ opts[1].cursor
  /\ Len(call[1].sections) >= 2
  /\ Len(TreeRefIds(call[1].tree)) >= 4
  /\ \E j, k \in DOMAIN call[1].tree :
       /\ j < k
       /\ call[1].tree[j].kind = "aria" /\ call[1].tree[j].ref # NoRef
       /\ call[1].tree[k].kind = "cursor"

SamePair(a, b) == a.role = b.role /\ a.name = b.name

\* The entries of a RefMap before position j with the pair of entry j
Earlier(refs, j) == {k \in 1..(j - 1) : SamePair(refs[k], refs[j])}

Sharing(refs, j) == {k \in DOMAIN refs : SamePair(refs[k], refs[j])}

\* nth is 0..k-1 in order of assignment among k >= 2 entries of a pair,
\* and absent from the entry of a pair that occurs once.
NthAsCounted(refs, j) ==
  IF Cardinality(Sharing(refs, j)) >= 2
    THEN refs[j].nth = Cardinality(Earlier(refs, j))
    ELSE refs[j].nth = NoNth

TreeDerived(entry) == entry.role \in INTERACTIVE_ROLES \cup CONTENT_ROLES

C3_SerialNoReissue ==
  \A i \in Invocations : (serial \/ ~overlap) => NoRepeat(call[i].issued)

\* An invocation that has returned after another one reset the counter
\* between two of its nextRef calls: it was issued an id twice, and its
\* RefMap holds fewer entries than the ids it was issued.
C3_Reissued ==
  \E i \in Invocations :
    /\ Done(i)
    /\ overlap
    /\ ~NoRepeat(call[i].issued)
    /\ Len(call[i].refs) < Len(call[i].issued)

\* C4: whatever collaborators fail (the accessibility tree throwing or
\* giving nothing, the cursor query throwing, the region detection
\* throwing) the call never rejects: it is suspended at an await or has
\* returned; and the failing scope or pass counts as empty.
C4_NeverRejects ==
  \A i \in Invocations :
    /\ call[i].pc \in {"idle", "detect", "aria", "cursor", "done"}
    /\ Done(i) /\ page.doc.detectThrows => call[i].regions = <<>>
    /\ Done(i) /\ (\A s \in DOMAIN page.aria : page.aria[s].lines = <<>>)
         => TreeLines(call[i].tree) = <<>>
    /\ Done(i) /\ (\A s \in DOMAIN page.cursor : page.cursor[s].threw)
         => \A k \in DOMAIN call[i].tree : call[i].tree[k].kind # "cursor"

\* The call has returned "(empty)" although the region detection, the
\* accessibility tree and the cursor query all threw.
C4_Witness ==
  /\ Done(1)
  /\ page.doc.detectThrows
  /\ opts[1].cursor
  /\ \A s \in DOMAIN page.aria : page.aria[s].threw /\ page.cursor[s].threw
  /\ call[1].tree = <<EmptyMarker>>
  /\ call[1].refs = <<>>

\* C5: with maxDepth = d, whatever the other options, no accessibility-tree
\* entry of a level above d gives an output line or a RefMap entry.
C5_MaxDepthRespected ==
  \A i \in Invocations :
    Done(i) /\ opts[i].maxDepth # NoDepth =>
      /\ \A k \in DOMAIN call[i].tree : call[i].tree[k].level <= opts[i].maxDepth
      /\ \A j \in DOMAIN call[i].refs :
           \A k \in DOMAIN call[i].tree :
             call[i].tree[k].ref = call[i].refs[j].ref
               => call[i].tree[k].level <= opts[i].maxDepth

\* C6: same tree, same other options: the tree of the call with the lower
\* maxDepth has no more lines than the tree of the call with the higher
\* maxDepth, or with none.
C6_DepthMonotone ==
  BothDone => LineCount(call[1].tree) <= LineCount(call[2].tree)

\* Two compact calls have returned, the deeper one with more lines.
C6_Witness ==
  /\ BothDone
  /\ opts[1].compact
  /\ opts[1].maxDepth = 0 /\ opts[2].maxDepth = 1
  /\ LineCount(call[1].tree) < LineCount(call[2].tree)
  /\ \E k \in DOMAIN call[2].tree :
       call[2].tree[k].ref = NoRef /\ call[2].tree[k].kind = "aria"

\* C7: same scope (whole page or regions), same other flags: the compact
\* tree is no longer, in characters, than the full tree.
C7_CompactNoLonger ==
  BothDone => Len(RenderTree(call[2].tree)) <= Len(RenderTree(call[1].tree))

Strip(l) == [l EXCEPT !.ref = NoRef, !.nth = 0]

StripAll(tree) == [k \in DOMAIN tree |-> Strip(tree[k])]

InteractiveLines(tree) ==
  Keep(tree, LAMBDA l : l.match /\ toLowerCase(l.role) \in INTERACTIVE_ROLES)

\* The line the interactive branch writes for a full-mode line: no
\* indentation, and the suffix only when it holds a "["
Flat(l) == [l EXCEPT !.indent = 0,
                     !.suffix = IF IncludesBracket(l.suffix) THEN l.suffix ELSE ""]

FlatAll(tree) == [k \in DOMAIN tree |-> Flat(tree[k])]

C9_SameTwice ==
  BothDone =>
    /\ call[1].tree = call[2].tree
    /\ RenderTree(call[1].tree) = RenderTree(call[2].tree)
    /\ call[1].refs = call[2].refs
    /\ call[2].issued # <<>> => call[2].issued[1] = "e1"

\* Both calls have returned, the first after issuing several refs.
C9_Witness ==
  /\ BothDone
  /\ Len(call[1].issued) >= 3
  /\ call[2].issued[1] = "e1"

HasHeading(tree, title) == \E k \in DOMAIN tree : tree[k] = OwnLine("heading", "# " \o title \o ":")

\* A region of the shell has an on-screen, visible matching element
RegionShows(doc, definition) ==
  \E n \in 1..Len(doc.els) :
    /\ \E c \in DOMAIN definition.candidates : definition.candidates[c] \in doc.els[n].sels
    /\ isOnScreenAndVisible(doc, n)

FabShows(doc) ==
  \E n \in 1..Len(doc.els) :
    /\ isOnScreenAndVisible(doc, n)
    /\ doc.els[n].fabToken \/ isFabLikeFloatingControl(doc, n)

\* C10: when the shell is detected, the tree holds the heading of a region
\* (Sidebar, Contents, Drawer, FAB) exactly when the region has an
\* on-screen, visible matching element, whatever the interactive, cursor
\* and compact flags.
C10_HeadingIffShown ==
  \A i \in Invocations :
    Done(i) /\ opts[i].selector = NoSelector /\ ~page.doc.detectThrows
            /\ hasMyheloSubLayout(page.doc) =>
      /\ \A d \in DOMAIN RegionDefinitions :
           HasHeading(call[i].tree, RegionDefinitions[d].title)
             <=> RegionShows(page.doc, RegionDefinitions[d])
      /\ HasHeading(call[i].tree, "FAB") <=> FabShows(page.doc)

\* Sidebar and drawer are off-screen and the FAB is hidden: the tree
\* returned holds "# Contents:" and none of the three other headings.
C10_Witness ==
  /\ Done(1)
  /\ page.doc = Layout("off", "on", "off", "hidden")
  /\ HasHeading(call[1].tree, "Contents")
  /\ ~HasHeading(call[1].tree, "Sidebar")
  /\ ~HasHeading(call[1].tree, "Drawer")
  /\ ~HasHeading(call[1].tree, "FAB")

\* The two detection groups, read off the elements of the document
ContentsLike ==
  {"#panel-center", "#contents-center", ".component.reverb.threads",
   ".component.reverb.messages"}

SidebarDrawerLike == {"#sidebar-center", "#drawer-container", ".component.reverb.sidebar"}

HasOneOf(doc, group) == \E n \in 1..Len(doc.els) : doc.els[n].sels \cap group # {}

NoHeading(tree) == \A k \in DOMAIN tree : tree[k].kind # "heading"

\* The tree of one pipeline run (tree filter, then the cursor detector when
\* asked) over the scope `key` with a fresh RefMap, tracker and counter
PipelineRun(key, o) ==
  LET withCursor(a) ==
        IF o.cursor
          THEN scopeCursor(a.tree, findCursorInteractiveElements(page.cursor[key]).els,
                           a.ctx).tree
          ELSE a.tree
  IN withCursor(scopeTree(page.aria[key], Ctx(<<>>, createRoleNameTracker, 0, <<>>), o))

\* C11: regions are found only in a document that holds an element of the
\* contents-like group and one of the sidebar/drawer-like group; when
\* either group has no element (with or without a FAB) the call returns
\* the tree of the one whole-page run, with no region and no heading.
C11_ShellNeedsBothGroups ==
  \A i \in Invocations :
    Done(i) /\ opts[i].selector = NoSelector =>
      /\ call[i].regions # <<>> =>
            HasOneOf(page.doc, ContentsLike) /\ HasOneOf(page.doc, SidebarDrawerLike)
      /\ ~(HasOneOf(page.doc, ContentsLike) /\ HasOneOf(page.doc, SidebarDrawerLike)) =>
            /\ call[i].regions = <<>>
            /\ call[i].sections = <<>>
            /\ NoHeading(call[i].tree)
            /\ call[i].tree = PipelineRun(":root", opts[i])

\* A lone contents pane with a FAB: the call has returned the whole-page
\* tree, a button with its ref, and no heading.
C11_Witness ==
  /\ Done(1)
  /\ page.doc = Layout("absent", "on", "absent", "on")
  /\ call[1].regions = <<>>
  /\ NoHeading(call[1].tree)
  /\ \E k \in DOMAIN call[1].tree : call[1].tree[k].ref = "e1"

\* C12: with the selector option the call never awaits the region
\* detection and holds no region, on a page that matches the shell as on
\* any other; the tree returned has no heading and is the tree of the one
\* pipeline run over the selector.
C12_SelectorBypassesRegions ==
  \A i \in Invocations :
    opts[i].selector # NoSelector =>
      /\ call[i].pc # "detect"
      /\ call[i].regions = <<>>
      /\ Done(i) =>
            /\ call[i].sections = <<>>
            /\ NoHeading(call[i].tree)
            /\ call[i].tree = PipelineRun(opts[i].selector, opts[i])

\* A scoped call has returned a tree with refs from the tree and from the
\* cursor detector, on the full shell.
C12_Witness ==
  /\ Done(1)
  /\ opts[1].selector = "#sel"
  /\ hasMyheloSubLayout(page.doc)
  /\ getMyheloActiveRegions(page.doc).regions # <<>>
  /\ \E k \in DOMAIN call[1].tree : call[1].tree[k].kind = "aria" /\ call[1].tree[k].ref = "e1"
  /\ \E k \in DOMAIN call[1].tree : call[1].tree[k].kind = "cursor"

\* The candidates whose selector is in the RefMap returned
Accepted(refs, candidates) ==
  {k \in 1..Len(candidates) : \E j \in DOMAIN refs : refs[j].selector = candidates[k].selector}

ContainedIn(candidates, k) == AncestorsIn([n \in 1..Len(candidates) |-> candidates[n].within], k)

\* One of the two elements is a DOM ancestor of the other
Related(candidates, j, k) ==
  j \in ContainedIn(candidates, k) \/ k \in ContainedIn(candidates, j)

\* C13: of the candidates of the cursor query, walked in sorted order, one
\* is accepted exactly when no candidate accepted before it is its
\* ancestor or descendant; and no two accepted candidates contain one
\* another.
C13_ContainmentExclusion ==
  \A i \in Invocations :
    Done(i) /\ opts[i].cursor /\ ~page.cursor[ScopeKey(opts[i].selector)].threw =>
      LET candidates == page.cursor[ScopeKey(opts[i].selector)].els
          accepted == Accepted(call[i].refs, candidates)
          sorted == sortCandidates(candidates)
      IN /\ \A j, k \in accepted : j # k => ~Related(candidates, j, k)
         /\ \A n \in 1..Len(sorted) :
              sorted[n] \in accepted
                <=> \A m \in 1..(n - 1) :
                      sorted[m] \in accepted => ~Related(candidates, sorted[m], sorted[n])

\* The titled wrapper with an icon child and a text child: the call has
\* returned one clickable ref, the wrapper's.
C13_Witness ==
  /\ Done(1)
  /\ opts[1].cursor
  /\ ~page.cursor[ScopeKey(opts[1].selector)].threw
  /\ Len(page.cursor[ScopeKey(opts[1].selector)].els) = 3
  /\ page.cursor[ScopeKey(opts[1].selector)].els[1].hasTitle
  /\ page.cursor[ScopeKey(opts[1].selector)].els[2].within = 1
  /\ page.cursor[ScopeKey(opts[1].selector)].els[3].within = 1
  /\ Accepted(call[1].refs, page.cursor[ScopeKey(opts[1].selector)].els) = {1}
  /\ \E j \in DOMAIN call[1].refs :
       call[1].refs[j].role = "clickable" /\ call[1].refs[j].name = "Settings"

\* The decision rule: the role, in lower case, is Interactive, or is Content
\* and the line has a name
RefWorthy(l) ==
  \/ toLowerCase(l.role) \in INTERACTIVE_ROLES
  \/ toLowerCase(l.role) \in CONTENT_ROLES /\ l.name # ""

\* The lines of the accessibility tree the depth filter retains
DepthRetained(lines, o) ==
  Keep(lines, LAMBDA l : o.maxDepth = NoDepth \/ l.level <= o.maxDepth)

RolesAndNames(lines) ==
  [k \in DOMAIN lines |-> <<toLowerCase(lines[k].role), lines[k].name>>]

\* C14: in full mode (compact or not) the tree-derived entries of the
\* RefMap are, in order, the matching lines the depth filter retains whose
\* role is Interactive, or Content with a name; an emitted line of the
\* accessibility tree carries [ref=...] exactly when it is one of those;
\* and without compact every retained line is emitted, the others
\* unchanged.
C14_RefIffRule ==
  \A i \in Invocations :
    Done(i) /\ ~opts[i].interactive /\ call[i].regions = <<>>
            /\ ~page.aria[ScopeKey(opts[i].selector)].threw =>
      LET retained == DepthRetained(page.aria[ScopeKey(opts[i].selector)].lines, opts[i])
          worthy == Keep(retained, LAMBDA l : l.match /\ RefWorthy(l))
          fromTree == Keep(call[i].refs, TreeDerived)
          emitted == TreeLines(call[i].tree)
      IN /\ [k \in DOMAIN fromTree |-> <<fromTree[k].role, fromTree[k].name>>]
              = RolesAndNames(worthy)
         /\ \A k \in DOMAIN emitted :
              emitted[k].ref # NoRef <=> emitted[k].match /\ RefWorthy(emitted[k])
         /\ ~opts[i].compact /\ retained # <<>> => StripAll(emitted) = retained

\* A full-mode call has returned: "Button" has a ref, the unnamed heading,
\* the named list and the paragraph have none.
C14_Witness ==
  /\ Done(1)
  /\ ~opts[1].interactive /\ ~opts[1].compact
  /\ \E k \in DOMAIN call[1].tree :
       call[1].tree[k].role = "Button" /\ call[1].tree[k].ref = "e1"
  /\ \E k \in DOMAIN call[1].tree :
       call[1].tree[k].role = "heading" /\ call[1].tree[k].ref = NoRef
  /\ \E k \in DOMAIN call[1].tree :
       call[1].tree[k].role \in {"list", "paragraph"} /\ call[1].tree[k].ref = NoRef
  /\ Len(Keep(call[1].refs, TreeDerived)) = 1

\* The marker of a scope without a tree
MarkerOf(o) == IF o.interactive THEN <<NoInteractiveMarker>> ELSE <<EmptyMarker>>

\* The answer of ariaSnapshot for the scope the invocation is at
AriaAt(i) == page.aria[ScopeKey(scopeOptions(call[i], opts[i]).selector)]

NoTree(aria) == aria.threw \/ aria.lines = <<>>

\* C15: when ariaSnapshot of a scope throws or returns nothing, the tree
\* filter's result for the scope is "(no interactive elements)" with the
\* interactive option and "(empty)" without, and the tree gives the scope
\* no ref: none has been issued when the first scope's cursor query is
\* awaited, and a single-scope call returns no tree-derived entry (and,
\* without cursor elements, the marker and an empty RefMap).
C15_MarkerWhenNoTree ==
  \A i \in Invocations :
    /\ call[i].pc = "cursor" /\ NoTree(AriaAt(i)) =>
         /\ call[i].enhancedTree = MarkerOf(opts[i])
         /\ call[i].ri <= 1 /\ call[i].si <= 1 =>
               call[i].refs = <<>> /\ call[i].issued = <<>>
    /\ Done(i) /\ call[i].regions = <<>> /\ NoTree(AriaAt(i)) =>
         /\ Keep(call[i].refs, TreeDerived) = <<>>
         /\ TreeLines(call[i].tree) = <<>>
         /\ Keep(call[i].refs, LAMBDA e : ~TreeDerived(e)) = <<>> =>
               call[i].tree = MarkerOf(opts[i]) /\ call[i].issued = <<>>

\* In the region path, an interactive call is awaiting the cursor query of
\* a scope whose ariaSnapshot threw, holding "(no interactive elements)".
C15_Witness ==
  /\ call[1].pc = "cursor"
  /\ call[1].regions # <<>>
  /\ opts[1].interactive
  /\ AriaAt(1).threw
  /\ call[1].enhancedTree = <<NoInteractiveMarker>>

(***************************************************************************)
(* C16: every emitted interactive or cursor-interactive line whose label   *)
(* holds private-use glyphs keeps the label as it was given, in the tree   *)
(* and in its RefMap entry, and carries an [icon-desc=...] annotation that *)
(* names every glyph of the label from left to right, a glyph the table    *)
(* does not know as <icon-u+XXXX> in lowercase hex.                        *)
(***************************************************************************)
\* The annotation each glyph label of the inputs is to carry
ExpectedIconDesc(label) ==
  CASE label = "{F01D9}" -> " [icon-desc=<dots-vertical>]"
    [] label = "Menu{F0156}{E00A}" -> " [icon-desc=<close>, <icon-u+e00a>]"
    [] label = "{E00A}{F01D9}" -> " [icon-desc=<icon-u+e00a>, <dots-vertical>]"
    [] OTHER -> ""

GlyphLabels == {"{F01D9}", "Menu{F0156}{E00A}", "{E00A}{F01D9}"}

\* The labels the page gave its interactive entries and cursor elements
GivenLabels(p) ==
  UNION { {p.aria[s].lines[k].name : k \in 1..Len(p.aria[s].lines)} : s \in DOMAIN p.aria }
    \cup UNION { {p.cursor[s].els[k].text : k \in 1..Len(p.cursor[s].els)}
                   : s \in DOMAIN p.cursor }

IsInteractiveLine(l) ==
  /\ l.ref # NoRef
  /\ l.kind = "cursor" \/ toLowerCase(l.role) \in INTERACTIVE_ROLES

SectionAlone(region, o) ==
  LET F[n \in 0..Len(region.selectors)] ==
        IF n = 0 THEN <<>> ELSE pushPart(F[n - 1], PipelineRun(region.selectors[n], o))
  IN <<Heading(region.title)>> \o sectionTreeOf(F[Len(region.selectors)], o)

AriaFailed(key) == page.aria[key].threw

CursorFailed(key, o) == o.cursor /\ page.cursor[key].threw

KindCount(tree, kind) == Cardinality({k \in DOMAIN tree : tree[k].kind = kind})

RefLineCount(tree) == Cardinality({k \in DOMAIN tree : tree[k].ref # NoRef})

\* C17, as stated: in the region path a selector whose tree acquisition or
\* cursor query fails contributes no lines: a region all of whose
\* selectors had one of the two calls fail has nothing under its heading
\* but the marker.
C17_FailedSelectorEmpty ==
  \A i \in Invocations :
    Done(i) /\ call[i].regions # <<>> =>
      \A r \in 1..Len(call[i].regions) :
        (\A n \in 1..Len(call[i].regions[r].selectors) :
           \/ AriaFailed(call[i].regions[r].selectors[n])
           \/ CursorFailed(call[i].regions[r].selectors[n], opts[i]))
          => call[i].sections[r]
               = <<Heading(call[i].regions[r].title)>> \o sectionTreeOf(<<>>, opts[i])

\* C17, amended: in the region path a failed tree acquisition contributes
\* no tree line and a failed cursor query no cursor line, and nothing else
\* is lost: the call returns, every region has its section in order, each
\* section is (up to ref ids and nth) the selectors' own runs one after
\* the other, and every ref line of the tree has its RefMap entry.
C17_FailedCallAloneEmpty ==
  \A i \in Invocations :
    /\ call[i].regions # <<>> => call[i].pc # "rejected"
    /\ Done(i) /\ call[i].regions # <<>> =>
         /\ Len(call[i].sections) = Len(call[i].regions)
         /\ call[i].tree = JoinSections(call[i].sections)
         /\ Len(call[i].refs) = RefLineCount(call[i].tree)
         /\ \A r \in 1..Len(call[i].regions) :
              /\ StripAll(call[i].sections[r])
                   = StripAll(SectionAlone(call[i].regions[r], opts[i]))
              /\ (\A n \in 1..Len(call[i].regions[r].selectors) :
                    AriaFailed(call[i].regions[r].selectors[n]))
                   => KindCount(call[i].sections[r], "aria") = 0
              /\ (\A n \in 1..Len(call[i].regions[r].selectors) :
                    CursorFailed(call[i].regions[r].selectors[n], opts[i]))
                   => KindCount(call[i].sections[r], "cursor") = 0

\* A finished call over two regions: in the first region one selector's
\* tree acquisition threw and the other selector's lines are there with a
\* ref; in the second the cursor query threw and the tree lines are there.
C17_Witness ==
  \E i \in Invocations :
    /\ Done(i) /\ opts[i].cursor
    /\ Len(call[i].regions) = 2
    /\ \E r \in 1..2 :
         /\ Len(call[i].regions[r].selectors) = 2
         /\ \E n, m \in 1..2 :
              /\ AriaFailed(call[i].regions[r].selectors[n])
              /\ CursorFailed(call[i].regions[r].selectors[n], opts[i])
              /\ ~AriaFailed(call[i].regions[r].selectors[m])
         /\ RefLineCount(call[i].sections[r]) > 0
    /\ \E r \in 1..2 :
         /\ Len(call[i].regions[r].selectors) = 1
         /\ ~AriaFailed(call[i].regions[r].selectors[1])
         /\ CursorFailed(call[i].regions[r].selectors[1], opts[i])
         /\ KindCount(call[i].sections[r], "aria") > 0

(***************************************************************************)
(* C18                                                                     *)
(***************************************************************************)
\* A per-selector result the section skips
EmptyResult(scopedTree) ==
  scopedTree = <<>> \/ scopedTree = <<EmptyMarker>> \/ scopedTree = <<NoInteractiveMarker>>

\* Every selector of the region, run alone, gives an empty result
AllEmpty(region, o) ==
  \A n \in 1..Len(region.selectors) : EmptyResult(PipelineRun(region.selectors[n], o))

\* The headings of a tree, in order
Headings(tree) == Keep(tree, LAMBDA l : l.kind = "heading")

NoPaneShows(doc) ==
  \A d \in DOMAIN RegionDefinitions : ~RegionShows(doc, RegionDefinitions[d])

C19_NoPaneNoPartition ==
  \A i \in Invocations :
    Done(i) /\ opts[i].selector = NoSelector /\ NoPaneShows(page.doc) =>
      /\ call[i].regions = <<>>
      /\ NoHeading(call[i].tree)
      /\ call[i].tree = PipelineRun(":root", opts[i])

(***************************************************************************)
(* C20: in compact mode a structural line without a ref is in the tree     *)
(* only if one of its own descendants in the accessibility tree (a line    *)
(* below it, before the next line that is not deeper) carries a ref; a ref *)
(* line that was the child of another, dropped, parent does not keep it.   *)
(***************************************************************************)
\* Entry n of the accessibility tree has a descendant that is given a ref
HasRefDescendant(lines, n, o) ==
  \E m \in (n + 1)..Len(lines) :
    /\ \A k \in (n + 1)..m : lines[k].level > lines[n].level
    /\ lines[m].match /\ RefWorthy(lines[m])
    /\ o.maxDepth = NoDepth \/ lines[m].level <= o.maxDepth

C20_KeptOnlyForOwnDescendants ==
  \A i \in Invocations :
    Done(i) /\ opts[i].compact /\ ~opts[i].interactive /\ call[i].regions = <<>>
            /\ ~page.aria[ScopeKey(opts[i].selector)].threw =>
      LET kept(lines, emitted) ==
            \A k \in DOMAIN emitted :
              /\ emitted[k].match
              /\ emitted[k].ref = NoRef
              /\ toLowerCase(emitted[k].role) \in STRUCTURAL_ROLES
              => \E n \in DOMAIN lines :
                   /\ lines[n] = Strip(emitted[k])
                   /\ HasRefDescendant(lines, n, opts[i])
      IN kept(page.aria[ScopeKey(opts[i].selector)].lines, TreeLines(call[i].tree))

(***************************************************************************)
(* C21: in compact full mode every line of the accessibility tree within   *)
(* the depth limit that has inline text after a colon is in the tree       *)
(* returned, whatever its role, named or not, with or without a ref or     *)
(* ref-bearing descendants.                                                *)
(***************************************************************************)
HasInlineText(l) == IncludesColon(l.suffix) /\ ~EndsWithColon(l.suffix)

C21_InlineTextKept ==
  \A i \in Invocations :
    Done(i) /\ opts[i].compact /\ ~opts[i].interactive /\ call[i].regions = <<>>
            /\ ~page.aria[ScopeKey(opts[i].selector)].threw =>
      LET present(retained, emitted) ==
            \A n \in DOMAIN retained :
              HasInlineText(retained[n])
                => \E k \in DOMAIN emitted : Strip(emitted[k]) = retained[n]
      IN present(DepthRetained(page.aria[ScopeKey(opts[i].selector)].lines, opts[i]),
                 call[i].tree)

(***************************************************************************)
(* C22: a line of the accessibility tree that does not match the line      *)
(* grammar never makes the call fail; in interactive mode it is dropped,   *)
(* and in full mode, compact or not, when it is within the depth limit, it *)
(* is in the tree returned as it was given, without a ref.                 *)
(***************************************************************************)
Malformed(lines) == Keep(lines, LAMBDA l : ~l.match)

C22_MalformedVerbatim ==
  \A i \in Invocations :
    /\ call[i].pc # "rejected"
    /\ Done(i) /\ call[i].regions = <<>> /\ ~page.aria[ScopeKey(opts[i].selector)].threw =>
         LET verbatim(retained, emitted) ==
               IF opts[i].interactive THEN Malformed(emitted) = <<>>
               ELSE Malformed(emitted) = Malformed(retained)
         IN verbatim(DepthRetained(page.aria[ScopeKey(opts[i].selector)].lines, opts[i]),
                     TreeLines(call[i].tree))

(***************************************************************************)
(* C23: with the cursor option and at least one cursor element, the cursor *)
(* lines come under the "# Cursor-interactive elements:" heading exactly   *)
(* when the tree of the scope has a line; when it has none (nothing or a   *)
(* failure from the acquisition, every line filtered out, or the marker)   *)
(* the cursor lines are the whole tree: no heading, no blank line first.   *)
(***************************************************************************)
\* The tree of the scope before the cursor pass, run alone
BaseTree(key, o) ==
  scopeTree(page.aria[key], Ctx(<<>>, createRoleNameTracker, 0, <<>>), o).tree

C23_HeadingIffBaseLines ==
  \A i \in Invocations :
    Done(i) /\ call[i].regions = <<>> /\ opts[i].cursor
            /\ findCursorInteractiveElements(page.cursor[ScopeKey(opts[i].selector)]).els # <<>> =>
      LET holds(base, tree) ==
            /\ KindCount(tree, "cursor") > 0
            /\ KindCount(tree, "cursorhead") = 1 <=> ~EmptyResult(base)
            /\ EmptyResult(base) => KindCount(tree, "cursor") = Len(tree)
      IN holds(BaseTree(ScopeKey(opts[i].selector), opts[i]), call[i].tree)

(***************************************************************************)
(* C24                                                                     *)
(***************************************************************************)
\* The candidates the candidate at place k wraps
WrappedBy(candidates, k) ==
  {j \in 1..Len(candidates) : k \in ContainedIn(candidates, j)}

\* A titled candidate that wraps candidates, none of them titled
TitledWrapper(candidates, k) ==
  /\ candidates[k].hasTitle
  /\ WrappedBy(candidates, k) # {}
  /\ \A j \in WrappedBy(candidates, k) : ~candidates[j].hasTitle

\* The entries of the RefMap for the candidates at the places of `group`
GroupRefs(refs, candidates, group) ==
  Keep(refs, LAMBDA e : \E j \in group : e.selector = candidates[j].selector)

\* C24, as stated: a titled candidate that wraps candidates none of which
\* has a title gives the group one ref, of role clickable and named by the
\* title, whatever the signals, depths and places of the wrapped ones.
C24_TitledWrapperOneClickable ==
  \A i \in Invocations :
    Done(i) /\ opts[i].cursor /\ ~page.cursor[ScopeKey(opts[i].selector)].threw =>
      LET candidates == page.cursor[ScopeKey(opts[i].selector)].els
      IN \A k \in 1..Len(candidates) :
           TitledWrapper(candidates, k) =>
             \E e \in {GroupRefs(call[i].refs, candidates, {k} \cup WrappedBy(candidates, k))} :
               /\ Len(e) = 1
               /\ e[1].selector = candidates[k].selector
               /\ e[1].role = "clickable"
               /\ e[1].name = candidates[k].text

\* C24, amended: such a wrapper that no titled candidate contains gives
\* the group one ref, named by the title, of role clickable when the
\* wrapper has the pointer cursor or an onclick and focusable when it has
\* a tabindex only.
C24_TopTitledWrapperOneRef ==
  \A i \in Invocations :
    Done(i) /\ opts[i].cursor /\ ~page.cursor[ScopeKey(opts[i].selector)].threw =>
      LET candidates == page.cursor[ScopeKey(opts[i].selector)].els
      IN \A k \in 1..Len(candidates) :
           /\ TitledWrapper(candidates, k)
           /\ \A a \in ContainedIn(candidates, k) : ~candidates[a].hasTitle
           => \E e \in {GroupRefs(call[i].refs, candidates, {k} \cup WrappedBy(candidates, k))} :
                /\ Len(e) = 1
                /\ e[1].selector = candidates[k].selector
                /\ e[1].role = (IF candidates[k].hasCursorPointer \/ candidates[k].hasOnClick
                                  THEN "clickable" ELSE "focusable")
                /\ e[1].name = candidates[k].text

\* A finished call over an unlabelled element around a titled wrapper
\* around an aria-labelled element with every other signal: the RefMap
\* holds the wrapper alone.
C24_Witness ==
  \E i \in Invocations :
    /\ Done(i) /\ opts[i].cursor /\ ~page.cursor[ScopeKey(opts[i].selector)].threw
    /\ \E c \in {page.cursor[ScopeKey(opts[i].selector)].els} :
         /\ Len(c) = 3
         /\ ~c[1].hasTitle /\ ~c[1].hasAriaLabel
         /\ c[2].hasTitle /\ c[2].hasCursorPointer /\ c[2].within = 1
         /\ c[3].hasAriaLabel /\ c[3].hasOnClick /\ c[3].within = 2
         /\ Accepted(call[i].refs, c) = {2}
         /\ \E j \in DOMAIN call[i].refs :
              call[i].refs[j].role = "clickable" /\ call[i].refs[j].name = "Settings"

(***************************************************************************)
(* C25: in the region path the sections stand in the order Sidebar,        *)
(* Contents, Drawer, FAB (those of the regions present), with one blank    *)
(* line between two sections; a section is "# <Title>:" followed by the    *)
(* results of the region's selectors in selector order (an empty result    *)
(* skipped, the marker when all are empty); and every ref of a section is  *)
(* smaller than every ref of a later section.                              *)
(***************************************************************************)
SectionOrder == <<"Sidebar", "Contents", "Drawer", "FAB">>

\* The titles of SectionOrder whose region is among `regions`, in that order
PresentTitles(regions) ==
  LET present == Keep(SectionOrder, LAMBDA t : \E r \in DOMAIN regions : regions[r].title = t)
  IN [k \in DOMAIN present |-> Heading(present[k])]

\* The numbers of the refs on the lines of a section
SectionRefs(section) == {RefNumber(section[k].ref) : k \in {n \in DOMAIN section : section[n].ref # NoRef}}

C25_SectionsInOrder ==
  \A i \in Invocations :
    Done(i) /\ call[i].regions # <<>> =>
      /\ Headings(call[i].tree) = PresentTitles(call[i].regions)
      /\ Len(call[i].sections) = Len(call[i].regions)
      /\ call[i].tree = JoinSections(call[i].sections)
      /\ \A r \in 1..Len(call[i].sections) :
           /\ call[i].sections[r][1] = Heading(call[i].regions[r].title)
           /\ call[i].sections[r][Len(call[i].sections[r])].kind # "blank"
           /\ StripAll(call[i].sections[r])
                = StripAll(SectionAlone(call[i].regions[r], opts[i]))
      /\ \A r, q \in 1..Len(call[i].sections) :
           r < q => \A a \in SectionRefs(call[i].sections[r]) :
                      \A b \in SectionRefs(call[i].sections[q]) : a < b
      /\ \A k \in 1..(Len(call[i].tree) - 1) :
           call[i].tree[k + 1].kind = "heading"
             => call[i].tree[k].kind = "blank" /\ k > 1 /\ call[i].tree[k - 1].kind # "blank"

\* A finished call over the four regions, each with a ref under its
\* heading: Sidebar, Contents, Drawer, FAB
C25_Witness ==
  \E i \in Invocations :
    /\ Done(i)
    /\ Len(call[i].regions) = 4
    /\ Headings(call[i].tree)
         = <<Heading("Sidebar"), Heading("Contents"), Heading("Drawer"), Heading("FAB")>>
    /\ \A r \in 1..4 : SectionRefs(call[i].sections[r]) # {}
    /\ KindCount(call[i].tree, "blank") = 3

(***************************************************************************)
(* C26: after a call run alone the keys of the RefMap are e1..eN without a *)
(* gap, N the value of the counter, and they match the [ref=...]           *)
(* annotations of the tree one to one: every id on a line is a key, every  *)
(* key is on exactly one line; under every option set, in the region path  *)
(* and in the whole-page path.                                             *)
(***************************************************************************)
RefKeys(refs) == {refs[j].ref : j \in DOMAIN refs}

C26_RefMapMatchesTree ==
  \A i \in Invocations :
    Done(i) =>
      /\ RefKeys(call[i].refs) = {"e" \o ToString(k) : k \in 1..refCounter}
      /\ Len(call[i].refs) = refCounter
      /\ NoRepeat(TreeRefIds(call[i].tree))
      /\ Range(TreeRefIds(call[i].tree)) = RefKeys(call[i].refs)

\* A finished compact call with the cursor option in the region path:
\* three refs or more, from the tree and from the cursor pass, each on a line
C26_Witness ==
  /\ Done(1)
  /\ opts[1].compact /\ opts[1].cursor
  /\ refCounter >= 3
  /\ Len(TreeRefIds(call[1].tree)) = refCounter
  /\ \E k \in DOMAIN call[1].tree : call[1].tree[k].kind = "aria" /\ call[1].tree[k].ref # NoRef
  /\ \E k \in DOMAIN call[1].tree : call[1].tree[k].kind = "cursor"
  /\ call[1].regions # <<>>

(***************************************************************************)
(* C27: the step of a scope whose tree acquisition fails, and the step of  *)
(* a cursor pass whose page query fails, leave the shared state as it was: *)
(* the counter, the duplicate tracker, the ids issued and the RefMap (up   *)
(* to the nth clean-up the call ends with), so that later scopes get the   *)
(* refs and nth values they would get without the failed scope.            *)
(***************************************************************************)
\* The answer of the cursor query for the scope the invocation is at
CursorAt(i) == page.cursor[ScopeKey(scopeOptions(call[i], opts[i]).selector)]

FailedStep(i) ==
  /\ call'[i] # call[i]
  /\ \/ call[i].pc = "aria" /\ AriaAt(i).threw
     \/ call[i].pc = "cursor" /\ CursorAt(i).threw

SharedStateKept(i) ==
  /\ refCounter' = refCounter
  /\ call'[i].tracker = call[i].tracker
  /\ call'[i].issued = call[i].issued
  /\ \/ call'[i].refs = call[i].refs
     \/ /\ call'[i].pc = "done"
        /\ call'[i].refs = removeNthFromNonDuplicates(call[i].refs, call[i].tracker)

C27_FailedStepKeepsShared ==
  [][\A i \in Invocations : FailedStep(i) => SharedStateKept(i)]_vars

\* A call in the region path at its second scope, with nothing issued yet
\* although the first scope is over: its tree acquisition and its cursor
\* query failed.
C27_Witness ==
  \E i \in Invocations :
    /\ call[i].pc = "aria"
    /\ opts[i].cursor
    /\ call[i].regions # <<>>
    /\ call[i].ri + call[i].si > 2
    /\ refCounter = 0 /\ call[i].issued = <<>> /\ call[i].refs = <<>>
    /\ page.aria[call[i].regions[1].selectors[1]].threw
    /\ page.cursor[call[i].regions[1].selectors[1]].threw
    /\ ~AriaAt(i).threw /\ AriaAt(i).lines # <<>>

(***************************************************************************)
(* C28: the compact option does not change the refs: against the same page *)
(* and with the same other options, the compact call returns the RefMap of *)
(* the full call (ids, roles, names, selectors, nth), and the lines of its *)
(* tree are a subsequence of the lines of the full tree.                   *)
(***************************************************************************)
\* The lines of `short` are lines of `long`, in the same order
RECURSIVE IsSubsequence(_, _)
IsSubsequence(short, long) ==
  IF short = <<>> THEN TRUE
  ELSE IF long = <<>> THEN FALSE
  ELSE IF Head(short) = Head(long) THEN IsSubsequence(Tail(short), Tail(long))
  ELSE IsSubsequence(short, Tail(long))

C28_CompactKeepsRefs ==
  BothDone =>
    /\ call[2].refs = call[1].refs
    /\ IsSubsequence(call[2].tree, call[1].tree)

(***************************************************************************)
(* C29: the tree returned is never the empty string: when the filters      *)
(* (maxDepth, compact, interactive) leave no line and the cursor pass adds *)
(* none, the tree is "(empty)" or "(no interactive elements)".             *)
(***************************************************************************)
C29_TreeNeverEmpty ==
  \A i \in Invocations :
    Done(i) =>
      /\ call[i].tree # <<>>
      /\ RenderTree(call[i].tree) # ""
      /\ KindCount(call[i].tree, "aria") + KindCount(call[i].tree, "text")
           + KindCount(call[i].tree, "cursor") = 0
           => call[i].regions # <<>> \/ call[i].tree \in {<<EmptyMarker>>, <<NoInteractiveMarker>>}

(***************************************************************************)
(* C30: under scoreCandidate the scores of the titled candidates (16..23), *)
(* of those with an aria-label and no title (8..15) and of the unlabelled  *)
(* ones (0..7) do not meet, so two candidates of equal score are both      *)
(* labelled or both unlabelled; a titled candidate sorts before every      *)
(* candidate without a title; and the comparator is a strict total order   *)
(* on the candidates of a query, which the sorted list follows.            *)
(***************************************************************************)
Labeled(candidate) == candidate.hasTitle \/ candidate.hasAriaLabel

ScoreRange(candidate) ==
  IF candidate.hasTitle THEN 16..23 ELSE IF candidate.hasAriaLabel THEN 8..15 ELSE 0..7

StrictTotalOrder(candidates) ==
  LET places == 1..Len(candidates)
  IN /\ \A j \in places : ~sortsBefore(candidates, j, j) \/ Len(candidates) = 0
     /\ \A j, k \in places :
          j # k => (sortsBefore(candidates, j, k) <=> ~sortsBefore(candidates, k, j))
     /\ \A j, k, l \in places :
          sortsBefore(candidates, j, k) /\ sortsBefore(candidates, k, l)
            => sortsBefore(candidates, j, l)

C30_ScoreClassesDisjoint ==
  \A i \in Invocations :
    opts[i].cursor /\ ~page.cursor[ScopeKey(opts[i].selector)].threw =>
      LET holds(candidates, sorted) ==
            /\ \A k \in 1..Len(candidates) :
                 scoreCandidate(candidates[k]) \in ScoreRange(candidates[k])
            /\ \A j, k \in 1..Len(candidates) :
                 /\ scoreCandidate(candidates[j]) = scoreCandidate(candidates[k])
                      => (Labeled(candidates[j]) <=> Labeled(candidates[k]))
                 /\ candidates[j].hasTitle /\ ~candidates[k].hasTitle
                      => sortsBefore(candidates, j, k)
            /\ \A m, n \in 1..Len(sorted) :
                 m < n => sorted[m] # sorted[n] /\ sortsBefore(candidates, sorted[m], sorted[n])
      IN /\ StrictTotalOrder(page.cursor[ScopeKey(opts[i].selector)].els)
         /\ holds(page.cursor[ScopeKey(opts[i].selector)].els,
                  sortCandidates(page.cursor[ScopeKey(opts[i].selector)].els))

\* A finished call over three candidates of equal score 12 at three
\* depths, all aria-labelled: the shallowest was walked first and is the
\* one in the RefMap.
C30_Witness ==
  \E i \in Invocations :
    /\ Done(i)
    /\ \E c \in {page.cursor[ScopeKey(opts[i].selector)].els} :
         /\ Len(c) = 3
         /\ \A k \in 1..3 : scoreCandidate(c[k]) = 12 /\ c[k].hasAriaLabel /\ c[k].depth = k
         /\ sortCandidates(c) = <<1, 2, 3>>
         /\ Accepted(call[i].refs, c) = {1}

====
